---- MODULE Spec2Model ----
(***************************************************************************)
(* A model of html4docx/h4d.py: class HtmlToDocx, the event-driven         *)
(* translator from markup events (HTMLParser callbacks) to mutations of a  *)
(* python-docx document.                                                   *)
(*                                                                         *)
(* One translator instance is a record (the fields of `self`); each        *)
(* HTMLParser callback is an operator from a translator record to the      *)
(* translator record after the callback.  The document sink (paragraphs,   *)
(* runs, numbering store) is carried inside the record as the fields doc   *)
(* and numbering.                                                          *)
(***************************************************************************)
EXTENDS Integers, Sequences, FiniteSets, TLC

VARIABLES
    tr,      \* the translator instance (self) together with its document sink
    open,    \* input side: the elements of the markup that are open, outermost first
    nev,     \* input side: number of markup events fed so far
    hist,    \* observations of the events fed so far (history, not program state)
    arg,     \* the arguments of the pure function under check
    ret,     \* its result
    tb       \* the position of handle_table inside its placement loops

vars == <<tr, open, nev, hist, arg, ret, tb>>

(***************************************************************************)
(* Bounds of the model.                                                    *)
(***************************************************************************)
MaxClassTokens == 3    \* tokens in a class attribute (style resolver)
MaxEvents == 5         \* markup events fed to the block/inline translator
MaxDepth == 3          \* open elements at any time (block/inline translator)
MaxListEvents == 9     \* markup events fed to the list translator
MaxListDepth == 4      \* open elements at any time (list translator)
MaxRows == 2           \* row elements of a table
MaxTableCells == 3     \* cells of a table
MaxSpan == 2            \* largest rowspan / colspan of a cell
MaxParaEvents == 3     \* markup events fed to the paragraph/heading translator
MaxBorderTokens == 3   \* tokens of a border value
MaxTables == 3         \* table elements of the markup of a run
MaxNestCells == 2      \* cells of each of those tables
MaxStyleTokens == 2    \* tokens of the value of an inline declaration
MaxLinkEvents == 5     \* markup events fed to the anchor translator
MaxImgEvents == 4      \* markup events fed to the image translator

(***************************************************************************)
(* Python values.                                                          *)
(***************************************************************************)
\* None where a style name is expected
NoStyle == "<None>"
\* None where a tag name is expected (skip_tag)
NoTag == "<None>"
\* None where a paragraph handle is expected; handles are positions in doc, from 1
NoParagraph == 0
\* None where an ordered-list instance key is expected; keys count from 1
NoneId == 0
\* self.run before any run was created (the attribute does not exist); a run
\* handle names the target it belongs to, its paragraph and its position
NoRun == [gen |-> 0, para |-> 0, idx |-> 0]
\* the key used when current_ol_num_id is None: `self.current_ol_num_id or -1`
MissingKey == -1
\* an empty dict (also stands for None where the code only tests truthiness)
EmptyDict == [k \in {} |-> <<>>]
\* the result slot before the function under check has run
NotRun == "<not run>"

Min(a, b) == IF a <= b THEN a ELSE b
Max(a, b) == IF a >= b THEN a ELSE b

\* dict without key k (dict.pop(k, None))
DictPop(d, k) == [x \in DOMAIN d \ {k} |-> d[x]]
\* dict with d[k] = v
DictSet(d, k, v) == [x \in DOMAIN d \cup {k} |-> IF x = k THEN v ELSE d[x]]

(***************************************************************************)
(* The document sink.                                                      *)
(***************************************************************************)
\* the style a paragraph has when none is given: python-docx's built-in default
BuiltinDefaultStyle == "Normal"
\* the paragraph styles the target document knows
DocStyles == {"Normal", "No Spacing",
              "Heading 1", "Heading 2", "Heading 3", "Heading 4", "Heading 5",
              "Heading 6", "Heading 7", "Heading 8", "Heading 9",
              "List Bullet", "List Bullet 2", "List Bullet 3",
              "List Number", "List Number 2", "List Number 3"}

\* doc.add_paragraph(style=style): numId 0 means no own w:numPr was written
\* bookmarks are the w:bookmarkStart elements of the paragraph
NewParagraph(style) ==
    [style |-> style, numId |-> 0, ilvl |-> 0, runs |-> <<>>, bookmarks |-> <<>>]

\* utils.check_style_exists(doc, name)
check_style_exists(name) == name \in DocStyles

\* apply_style_to_paragraph: paragraph.style = style_name; an unknown name raises
\* KeyError inside, which is caught, and the paragraph keeps its style
apply_style_to_paragraph(p, style_name) ==
    IF style_name \in DocStyles THEN [p EXCEPT !.style = style_name] ELSE p

(***************************************************************************)
(* Style cascade resolver: get_word_style_for_element.                     *)
(* attrs is a dict; attrs["class"] is modelled after .split(), as the      *)
(* sequence of its whitespace-separated tokens.                            *)
(***************************************************************************)
\* a plausible slip: the last matching class token wins
RECURSIVE ClassLoopLast(_, _)
ClassLoopLast(classes, map) ==
    IF classes = <<>> THEN NoStyle
    ELSE LET n == Len(classes) IN
         IF classes[n] \in DOMAIN map THEN map[classes[n]]
         ELSE ClassLoopLast(SubSeq(classes, 1, n - 1), map)

\* for cls in classes: if cls in self.style_map: return self.style_map[cls]
RECURSIVE ClassLoop(_, _)
ClassLoop(classes, map) ==
    IF classes = <<>> THEN NoStyle
    ELSE IF Head(classes) \in DOMAIN map THEN map[Head(classes)]
    ELSE ClassLoop(Tail(classes), map)

\* a plausible slip: the tag override is looked up before the classes
get_word_style_for_element_tagfirst(s, tag, attrs) ==
    IF tag \in DOMAIN s.tag_style_overrides THEN s.tag_style_overrides[tag]
    ELSE IF "class" \in DOMAIN attrs
         THEN ClassLoop(attrs["class"], s.style_map)
         ELSE NoStyle

get_word_style_for_element(s, tag, attrs) ==
    LET byClass == IF "class" \in DOMAIN attrs
                   THEN ClassLoop(attrs["class"], s.style_map)
                   ELSE NoStyle
    IN  IF byClass # NoStyle THEN byClass
        ELSE IF tag \in DOMAIN s.tag_style_overrides
             THEN s.tag_style_overrides[tag]
             ELSE NoStyle

(***************************************************************************)
(* Inline declarations.  A style attribute is modelled after               *)
(* utils.parse_dict_string, as a dict from property name to value; a value *)
(* is the sequence of its whitespace-separated tokens.                     *)
(***************************************************************************)
\* str.lower() on the tokens the model uses
Lower(tok) ==
    CASE tok = "!IMPORTANT" -> "!important"
      [] tok = "BOLD" -> "bold"
      [] tok = "2PT" -> "2pt"
      [] tok = "SOLID" -> "solid"
      [] OTHER -> tok

LowerAll(value) == [i \in DOMAIN value |-> Lower(value[i])]

\* the tokens of the model that hold the text "!important" in some letter
\* case, each with the text before and the text after it
ImportantParts ==
    ("!important" :> <<"", "">>) @@ ("!IMPORTANT" :> <<"", "">>)
    @@ ("red!important" :> <<"red", "">>) @@ ("!importantly" :> <<"", "ly">>)

\* "!important" in value.lower(): a test on the text of the value
HasImportant(value) == \E i \in DOMAIN value : value[i] \in DOMAIN ImportantParts

\* text that follows a removed match is joined to the text before the match
Joined(acc, glue, text) ==
    IF glue /\ acc # <<>>
    THEN [acc EXCEPT ![Len(acc)] = @ \o text]
    ELSE Append(acc, text)

\* re.sub(r"\s*!important\s*", "", value, flags=re.IGNORECASE).strip(): each
\* match goes with the blanks around it
RECURSIVE strip_loop(_, _, _)
strip_loop(value, acc, glue) ==
    IF value = <<>> THEN acc
    ELSE LET tok == Head(value) IN
         IF tok \notin DOMAIN ImportantParts
         THEN strip_loop(Tail(value), Joined(acc, glue, tok), FALSE)
         ELSE LET before == ImportantParts[tok][1]
                  after == ImportantParts[tok][2]
                  acc1 == IF before = "" THEN acc ELSE Joined(acc, glue, before)
              IN  IF after = "" THEN strip_loop(Tail(value), acc1, TRUE)
                  ELSE strip_loop(Tail(value), Joined(acc1, TRUE, after), FALSE)

StripImportant(value) == strip_loop(value, <<>>, FALSE)

\* parse_inline_styles(style_string) -> (normal_styles, important_styles)
parse_inline_styles(style) ==
    [normal    |-> [p \in {q \in DOMAIN style : ~HasImportant(style[q])} |-> style[p]],
     important |-> [p \in {q \in DOMAIN style : HasImportant(style[q])} |->
                        StripImportant(style[p])]]

\* apply_inline_styles_to_run(styles_dict), on the font of one run.  Of the
\* properties it reads, the model carries font-weight.
apply_inline_styles_to_run(run, styles_dict) ==
    IF "font-weight" \in DOMAIN styles_dict
    THEN LET weight == LowerAll(styles_dict["font-weight"]) IN
         IF weight \in {<<"bold">>, <<"bolder">>, <<"700">>, <<"800">>, <<"900">>}
         THEN [run EXCEPT !.bold = "True"]
         ELSE IF weight \in {<<"normal">>, <<"400">>}
              THEN [run EXCEPT !.bold = "False"]
              ELSE run
    ELSE run

\* constants.FONT_STYLES: tag -> font property set to True on the run
FONT_STYLES == [b |-> "bold", strong |-> "bold"]

(***************************************************************************)
(* The translator instance.                                                *)
(***************************************************************************)
\* constants.DEFAULT_OPTIONS
DEFAULT_OPTIONS ==
    [fix_html |-> TRUE, images |-> TRUE, tables |-> TRUE, styles |-> TRUE,
     style_map |-> TRUE, tag_override |-> TRUE]

\* constants.DEFAULT_TABLE_STYLE: no table style
DEFAULT_TABLE_STYLE == NoStyle
\* constants.DEFAULT_TABLE_ROW_SELECTORS
DEFAULT_TABLE_ROW_SELECTORS ==
    <<"table > thead > tr", "table > tbody > tr", "table > tfoot > tr", "table > tr">>

\* self has no attribute soup
NoSoup == [frag |-> "<None>"]
\* no exception has been raised
NoError == "<no error>"

\* docx.Document(): an empty document
NewDocument == [kind |-> "Document", paragraphs |-> <<>>, tables |-> <<>>]
\* a docx.table._Cell of a table just added: it holds one empty paragraph
NewCell ==
    [kind |-> "Cell", paragraphs |-> <<NewParagraph(BuiltinDefaultStyle)>>,
     tables |-> <<>>]

\* __init__(style_map, tag_style_overrides, default_paragraph_style): the
\* configuration.  soup, tables and table_no are attributes that run_process and
\* get_tables create; here they hold the values that stand for "not set".
HtmlToDocx(style_map, tag_style_overrides, default_paragraph_style) ==
    [options |-> DEFAULT_OPTIONS,
     table_row_selectors |-> DEFAULT_TABLE_ROW_SELECTORS,
     table_style |-> DEFAULT_TABLE_STYLE,
     style_map |-> style_map,
     tag_style_overrides |-> tag_style_overrides,
     default_paragraph_style |->
        IF default_paragraph_style = NoStyle THEN BuiltinDefaultStyle
        ELSE default_paragraph_style,
     soup |-> NoSoup,
     tables |-> <<>>,
     table_no |-> 0,
     run |-> NoRun,
     gen |-> 0,       \* the number of targets this translator was pointed at
     stale |-> 0]     \* mutations made to targets of earlier calls

\* set_initial_attrs(document): the state of one translation run.  The sink is
\* carried in the record: doc holds the paragraphs of self.doc, doc_tables its
\* tables, sink the class of self.doc.
set_initial_attrs(s, document) ==
    [options |-> s.options,
     table_row_selectors |-> s.table_row_selectors,
     table_style |-> s.table_style,
     style_map |-> s.style_map,
     tag_style_overrides |-> s.tag_style_overrides,
     default_paragraph_style |-> s.default_paragraph_style,
     soup |-> s.soup,
     tables |-> s.tables,
     table_no |-> s.table_no,
     run |-> s.run,           \* not assigned by set_initial_attrs
     gen |-> s.gen + 1,       \* self.doc = document: a new target
     stale |-> s.stale,
     error |-> NoError,       \* the exception that ended the run, if any
     bs |-> s.options.fix_html,
     tags |-> EmptyDict,      \* self.tags without its "span" and "list" entries
     tags_span |-> <<>>,      \* self.tags["span"]
     tags_list |-> <<>>,      \* self.tags["list"]
     sink |-> document.kind,
     doc |-> document.paragraphs,   \* the paragraphs of self.doc, in document order
     doc_tables |-> document.tables, \* the tables of self.doc, in document order
     numbering |-> <<>>,      \* the w:num elements added to the numbering part
     paragraph |-> NoParagraph,
     skip |-> FALSE,
     skip_tag |-> NoTag,
     instances_to_skip |-> 0,
     bookmark_id |-> 0,
     in_li |-> FALSE,
     list_restart_counter |-> 0,
     current_ol_num_id |-> NoneId,
     list_num_ids |-> EmptyDict,
     use_styles |-> IF s.options.styles = FALSE THEN FALSE
                    ELSE s.options.style_map,
     use_tag_overrides |-> s.options.tag_override,
     pending_div_style |-> NoStyle,
     pending_character_style |-> NoStyle,
     pending_inline_styles |-> EmptyDict,
     pending_important_styles |-> EmptyDict]

\* a translator constructed and initialised on an empty document
NewTranslator(style_map, tag_style_overrides, default_paragraph_style) ==
    set_initial_attrs(
        HtmlToDocx(style_map, tag_style_overrides, default_paragraph_style),
        NewDocument)

\* self.paragraph = self.doc.add_paragraph(style)
add_paragraph(s, p) ==
    [s EXCEPT !.doc = Append(@, p), !.paragraph = Len(s.doc) + 1]

\* the `if "style" in current_attrs` blocks of span, p/pre and code:
\* normal and important declarations go to their pending slots when non-empty
store_inline_styles(s, current_attrs) ==
    IF "style" \in DOMAIN current_attrs
    THEN LET parsed == parse_inline_styles(current_attrs["style"]) IN
         [s EXCEPT
            !.pending_inline_styles =
                IF DOMAIN parsed.normal # {} THEN parsed.normal ELSE @,
            !.pending_important_styles =
                IF DOMAIN parsed.important # {} THEN parsed.important ELSE @]
    ELSE s

(***************************************************************************)
(* List numbering allocator: handle_li.                                    *)
(***************************************************************************)
\* constants.STYLES.get(style_key, ...) for style_key = list_type or list_type+level
ListStyle(list_type, level) ==
    LET base == IF list_type = "ol" THEN "List Number" ELSE "List Bullet" IN
    CASE level <= 1 -> base
      [] level = 2 -> IF list_type = "ol" THEN "List Number 2" ELSE "List Bullet 2"
      [] OTHER -> IF list_type = "ol" THEN "List Number 3" ELSE "List Bullet 3"

\* ct_numbering.add_num(abstractNumId).numId: the next unused numbering id
next_numId(s) == Len(s.numbering) + 1

\* handle_li from add_paragraph on, for the list type and level it computed
li_paragraph(s, list_type, level) ==
    LET list_style == ListStyle(list_type, level)
        s1 == [add_paragraph(s, NewParagraph(list_style)) EXCEPT !.in_li = TRUE]
    IN  IF list_type = "ol"
        THEN LET ol_id == IF s1.current_ol_num_id # NoneId
                          THEN s1.current_ol_num_id ELSE MissingKey
                 first == ol_id \notin DOMAIN s1.list_num_ids
                 new_num_id == IF first THEN next_numId(s1)
                               ELSE s1.list_num_ids[ol_id]
             IN  [s1 EXCEPT
                    !.numbering =
                        IF first
                        THEN Append(@, [numId |-> new_num_id, lvl |-> 0, start |-> 1])
                        ELSE @,
                    !.list_num_ids =
                        IF first THEN DictSet(@, ol_id, new_num_id) ELSE @,
                    !.doc[s1.paragraph].numId = new_num_id,
                    !.doc[s1.paragraph].ilvl = level - 1]
        ELSE s1

\* a plausible slip: the level is the depth of the list stack, not capped
handle_li_uncapped(s) ==
    li_paragraph(s,
                 IF Len(s.tags_list) > 0 THEN s.tags_list[Len(s.tags_list)] ELSE "ul",
                 IF Len(s.tags_list) = 0 THEN 1 ELSE Len(s.tags_list))

handle_li(s) ==
    LET list_depth == IF Len(s.tags_list) = 0 THEN 1 ELSE Len(s.tags_list)
        list_type == IF Len(s.tags_list) > 0 THEN s.tags_list[Len(s.tags_list)]
                     ELSE "ul"
        level == Min(list_depth, 3)
    IN  li_paragraph(s, list_type, level)

\* handle_div: a paragraph of its own (the page break is not modelled)
handle_div(s, current_attrs) == add_paragraph(s, NewParagraph(BuiltinDefaultStyle))

\* handle_hr
handle_hr(s) == add_paragraph(s, NewParagraph(BuiltinDefaultStyle))

(***************************************************************************)
(* Parser state machine: the HTMLParser callbacks.                         *)
(* The tags modelled are head, body, span, ol, ul, p, pre, div, li, hr,    *)
(* h1..h9, table, code and tags without a branch of their own (b, ...).    *)
(***************************************************************************)
\* a plausible slip: the resolved name is used without asking the document
custom_style_unvalidated(s, tag, current_attrs) ==
    IF s.use_styles \/ s.use_tag_overrides
    THEN get_word_style_for_element(s, tag, current_attrs)
    ELSE NoStyle

\* custom_style of handle_starttag: the resolved style when style mapping or tag
\* overrides are on, and None when the document does not know that style
custom_style_of(s, tag, current_attrs) ==
    LET resolved == IF s.use_styles \/ s.use_tag_overrides
                    THEN get_word_style_for_element(s, tag, current_attrs)
                    ELSE NoStyle
    IN  IF resolved # NoStyle /\ check_style_exists(resolved) THEN resolved
        ELSE NoStyle

\* a plausible slip: the configured default paragraph style is left out
style_to_apply_nodefault(s, custom_style) ==
    IF s.pending_div_style # NoStyle THEN s.pending_div_style ELSE custom_style

\* style_to_apply = pending_div_style or custom_style or default_paragraph_style
style_to_apply_of(s, custom_style) ==
    IF s.pending_div_style # NoStyle THEN s.pending_div_style
    ELSE IF custom_style # NoStyle THEN custom_style
    ELSE s.default_paragraph_style

\* the branch `if tag in ["p", "pre"]`
starttag_p(s, current_attrs, custom_style) ==
    LET s1 == IF ~s.in_li
              THEN add_paragraph(s,
                       apply_style_to_paragraph(NewParagraph(BuiltinDefaultStyle),
                                                style_to_apply_of(s, custom_style)))
              ELSE s
    IN  store_inline_styles(s1, current_attrs)

\* the branch `elif tag == "div"`
starttag_div(s, current_attrs, custom_style) ==
    IF custom_style # NoStyle /\ ~s.in_li
    THEN [s EXCEPT !.pending_div_style = custom_style]
    ELSE handle_div(s, current_attrs)

\* the branch `elif tag == "li"`
starttag_li(s, custom_style) ==
    LET s1 == handle_li(s) IN
    IF custom_style # NoStyle /\ s1.paragraph # NoParagraph
    THEN [s1 EXCEPT !.doc[s1.paragraph] = apply_style_to_paragraph(@, custom_style)]
    ELSE s1

\* the branch `elif tag == "code"`
starttag_code(s, current_attrs, custom_style) ==
    LET s1 == IF custom_style # NoStyle
              THEN [s EXCEPT !.pending_character_style = custom_style]
              ELSE s
    IN  store_inline_styles(s1, current_attrs)

\* int(tag[1]) for the tags that re.match("h[1-9]", tag) accepts
h_size_of ==
    [h1 |-> 1, h2 |-> 2, h3 |-> 3, h4 |-> 4, h5 |-> 5, h6 |-> 6, h7 |-> 7,
     h8 |-> 8, h9 |-> 9]

\* the style of the paragraph doc.add_heading(level=level) adds, level in 1..9
HeadingStyle(level) ==
    <<"Heading 1", "Heading 2", "Heading 3", "Heading 4", "Heading 5",
      "Heading 6", "Heading 7", "Heading 8", "Heading 9">>[level]

\* a plausible slip: the built-in heading is used whatever custom_style is
starttag_heading_builtin(s, tag, custom_style) ==
    add_paragraph(s, NewParagraph(HeadingStyle(Min(h_size_of[tag], 9))))

\* the branch `elif re.match("h[1-9]", tag)`
starttag_heading(s, tag, custom_style) ==
    IF s.sink = "Document"
    THEN IF custom_style # NoStyle
         THEN add_paragraph(s,
                  apply_style_to_paragraph(NewParagraph(BuiltinDefaultStyle),
                                           custom_style))
         ELSE add_paragraph(s, NewParagraph(HeadingStyle(Min(h_size_of[tag], 9))))
    ELSE \* in a table cell
         add_paragraph(s,
             IF custom_style # NoStyle
             THEN apply_style_to_paragraph(NewParagraph(BuiltinDefaultStyle),
                                           custom_style)
             ELSE NewParagraph(BuiltinDefaultStyle))

\* a run as paragraph.add_run(text) creates it
NewRun(text) ==
    [text |-> text, bold |-> "None", style |-> NoStyle, href |-> "", breaks |-> 0]

\* the `elif tag == "br"` branch of handle_starttag: self.run.add_break(), and
\* when self.run does not exist a new paragraph with a run of its own.  A run
\* left by an earlier call belongs to the target of that call.
starttag_br(s) ==
    IF s.run # NoRun
    THEN IF s.run.gen = s.gen
         THEN [s EXCEPT !.doc[s.run.para].runs[s.run.idx].breaks = @ + 1]
         ELSE [s EXCEPT !.stale = @ + 1]
    ELSE LET s1 == add_paragraph(s, NewParagraph(BuiltinDefaultStyle)) IN
         [s1 EXCEPT !.doc[s1.paragraph].runs = <<[NewRun("") EXCEPT !.breaks = 1]>>,
                    !.run = [gen |-> s1.gen, para |-> s1.paragraph, idx |-> 1]]

\* a plausible slip: the key of an <ol> is taken without advancing the counter
starttag_list_samekey(s, tag) ==
    LET s1 == IF tag = "ol"
              THEN [s EXCEPT !.current_ol_num_id = s.list_restart_counter + 1]
              ELSE [s EXCEPT !.current_ol_num_id = NoneId]
    IN  [s1 EXCEPT !.tags_list = Append(@, tag)]

\* the `elif tag in ["ol", "ul"]` branch of handle_starttag
starttag_list(s, tag) ==
    LET s1 == IF tag = "ol"
              THEN [s EXCEPT
                      !.list_restart_counter = @ + 1,
                      !.current_ol_num_id = s.list_restart_counter + 1]
              ELSE [s EXCEPT !.current_ol_num_id = NoneId]
    IN  [s1 EXCEPT !.tags_list = Append(@, tag)]

\* handle_img(current_attrs).  With images off the translator starts skipping
\* up to the closing tag of the image.  With images on, an image without src
\* gives a paragraph of its own (self.paragraph is not assigned); the images
\* with a src are those utils.fetch_image_data can fetch: the picture goes to
\* a new run of the current paragraph, or for a table cell to a paragraph of
\* its own (add_image_to_cell).
handle_img(s, current_attrs) ==
    IF ~s.options.images
    THEN [s EXCEPT !.skip = TRUE, !.skip_tag = "img"]
    ELSE IF "src" \notin DOMAIN current_attrs
    THEN [s EXCEPT !.doc = Append(@, [NewParagraph(BuiltinDefaultStyle) EXCEPT
                                         !.runs = <<NewRun("<image: no_src>")>>])]
    ELSE LET s1 == IF s.paragraph = NoParagraph
                   THEN add_paragraph(s, NewParagraph(BuiltinDefaultStyle))
                   ELSE s
             s2 == [s1 EXCEPT
                      !.doc[s1.paragraph].runs =
                          Append(@, NewRun(IF s.sink = "Document" THEN "<picture>"
                                           ELSE "")),
                      !.run = [gen |-> s1.gen, para |-> s1.paragraph,
                               idx |-> Len(s1.doc[s1.paragraph].runs) + 1]]
         IN  IF s.sink = "Document" THEN s2
             ELSE [s2 EXCEPT !.doc = Append(@, [NewParagraph(BuiltinDefaultStyle)
                                                  EXCEPT !.runs = <<NewRun("<picture>")>>])]

\* the `elif tag == "img"` branch of handle_starttag: handle_img, then
\* self.paragraph = self.doc.paragraphs[-1], an IndexError when the target has
\* no paragraph
starttag_img(s, current_attrs) ==
    LET s1 == handle_img(s, current_attrs) IN
    IF s1.doc = <<>> THEN [s1 EXCEPT !.error = "IndexError"]
    ELSE [s1 EXCEPT !.paragraph = Len(s1.doc)]

\* add_bookmark(bookmark_name)
add_bookmark(s, bookmark_name) ==
    LET s1 == IF s.paragraph = NoParagraph
              THEN add_paragraph(s, NewParagraph(BuiltinDefaultStyle))
              ELSE s
    IN  [s1 EXCEPT !.doc[s1.paragraph].bookmarks =
                       Append(@, [id |-> s.bookmark_id, name |-> bookmark_name]),
                   !.bookmark_id = @ + 1]

\* handle_starttag after its branches: `if "id" in current_attrs`.  The code
\* branch and the branch of a handled table have returned before; an exception
\* of a branch ends the handler.
starttag_bookmark(s, tag, current_attrs, handled) ==
    IF tag = "code" \/ (tag = "table" /\ handled) \/ s.error # NoError THEN s
    ELSE IF "id" \in DOMAIN current_attrs
    THEN add_bookmark(s, current_attrs["id"])
    ELSE s

\* handle_table is defined with the translation runs below: it runs a child
\* translator per cell, which feeds handle_starttag in turn
RECURSIVE handle_table(_, _)

\* the branches of handle_starttag on the tag, after self.tags[tag] is set
starttag_branch(s1, tag, attrs, custom_style) ==
    CASE tag \in {"p", "pre"} -> starttag_p(s1, attrs, custom_style)
      [] tag = "div" -> starttag_div(s1, attrs, custom_style)
      [] tag = "li" -> starttag_li(s1, custom_style)
      [] tag = "hr" -> handle_hr(s1)
      [] tag \in DOMAIN h_size_of -> starttag_heading(s1, tag, custom_style)
      [] tag = "img" -> starttag_img(s1, attrs)
      [] tag = "table" -> IF s1.options.tables THEN handle_table(s1, attrs)
                          ELSE s1
      [] tag = "code" -> starttag_code(s1, attrs, custom_style)
      [] OTHER -> s1

handle_starttag(s, tag, attrs) ==
    IF s.skip THEN s
    ELSE IF tag = "head"
    THEN [s EXCEPT !.skip = TRUE, !.skip_tag = tag, !.instances_to_skip = 0]
    ELSE IF tag = "body" THEN s
    ELSE IF tag = "span"
    THEN [store_inline_styles(s, attrs) EXCEPT !.tags_span = Append(@, attrs)]
    ELSE IF tag \in {"ol", "ul"} THEN starttag_list(s, tag)
    ELSE IF tag = "br" THEN starttag_br(s)
    ELSE LET s1 == [s EXCEPT !.tags = DictSet(@, tag, attrs)] IN
         starttag_bookmark(
             starttag_branch(s1, tag, attrs, custom_style_of(s1, tag, attrs)),
             tag, attrs, s1.options.tables)

\* utils.remove_last_occurence(ls, x)
RECURSIVE remove_last_occurence(_, _)
remove_last_occurence(ls, x) ==
    IF ls = <<>> THEN ls
    ELSE LET n == Len(ls) IN
         IF ls[n] = x THEN SubSeq(ls, 1, n - 1)
         ELSE Append(remove_last_occurence(SubSeq(ls, 1, n - 1), x), ls[n])

\* the four `Clear pending ...` blocks at the head of handle_endtag
clear_pending(s, tag) ==
    LET s1 == IF tag = "code"
              THEN [s EXCEPT !.pending_character_style = NoStyle,
                             !.pending_inline_styles = EmptyDict,
                             !.pending_important_styles = EmptyDict]
              ELSE s
        s2 == IF tag = "span"
              THEN [s1 EXCEPT !.pending_important_styles = EmptyDict]
              ELSE s1
        s3 == IF tag = "div"
              THEN [s2 EXCEPT !.pending_div_style = NoStyle]
              ELSE s2
    IN  IF tag \in {"p", "pre"}
        THEN [s3 EXCEPT !.pending_inline_styles = EmptyDict,
                        !.pending_important_styles = EmptyDict]
        ELSE s3

\* handle_endtag after the skip block
endtag_dispatch(s, tag) ==
    IF tag = "span" /\ s.tags_span # <<>>
    THEN [s EXCEPT !.tags_span = SubSeq(@, 1, Len(@) - 1)]
    ELSE IF tag \in {"ol", "ul"}
    THEN LET s1 == [s EXCEPT !.tags_list = remove_last_occurence(@, tag)] IN
         IF tag = "ol"
         THEN [s1 EXCEPT !.list_num_ids = DictPop(@, s.current_ol_num_id),
                         !.current_ol_num_id = NoneId]
         ELSE s1
    ELSE LET s1 == IF tag = "table" /\ s.options.tables
                   THEN [s EXCEPT !.table_no = @ + 1, !.paragraph = NoParagraph]
                   ELSE IF tag = "li" THEN [s EXCEPT !.in_li = FALSE]
                   ELSE s
         IN  [s1 EXCEPT !.tags = DictPop(@, tag)]

\* a plausible slip: every closing tag counts down the instances to skip
handle_endtag_any_tag(s, tag) ==
    LET s1 == clear_pending(s, tag) IN
    IF s1.skip
    THEN IF s1.instances_to_skip > 0
         THEN [s1 EXCEPT !.instances_to_skip = @ - 1]
         ELSE IF tag # s1.skip_tag THEN s1
         ELSE endtag_dispatch([s1 EXCEPT !.skip = FALSE, !.skip_tag = NoTag,
                                         !.paragraph = NoParagraph], tag)
    ELSE endtag_dispatch(s1, tag)

handle_endtag(s, tag) ==
    LET s1 == clear_pending(s, tag) IN
    IF s1.skip
    THEN IF tag # s1.skip_tag THEN s1
         ELSE IF s1.instances_to_skip > 0
              THEN [s1 EXCEPT !.instances_to_skip = @ - 1]
              ELSE endtag_dispatch([s1 EXCEPT !.skip = FALSE, !.skip_tag = NoTag,
                                              !.paragraph = NoParagraph], tag)
    ELSE endtag_dispatch(s1, tag)

\* HTMLParser.handle_startendtag(tag, attrs), which the translator inherits:
\* handle_starttag, then handle_endtag
handle_startendtag(s, tag, attrs) ==
    LET s1 == handle_starttag(s, tag, attrs) IN
    IF s1.error # NoError THEN s1 ELSE handle_endtag(s1, tag)

\* utils.remove_whitespace(data, True, True) on the kinds of text the model feeds:
\* "T" is text with a non-blank character, " " is whitespace only
remove_whitespace(data) == IF data = " " THEN "" ELSE data

\* the loop `for tag, attrs in self.tags.items()` of handle_data, for the
\* font property bold
font_style_loop(s, run) ==
    IF \E t \in DOMAIN s.tags : t \in DOMAIN FONT_STYLES /\ FONT_STYLES[t] = "bold"
    THEN [run EXCEPT !.bold = "True"]
    ELSE run

\* pending character style, then pending normal inline styles, then pending
\* important inline styles
apply_pending(s, run) ==
    LET r1 == IF s.pending_character_style # NoStyle
              THEN [run EXCEPT !.style = s.pending_character_style]
              ELSE run
        r2 == IF DOMAIN s.pending_inline_styles # {}
              THEN apply_inline_styles_to_run(r1, s.pending_inline_styles)
              ELSE r1
    IN  IF DOMAIN s.pending_important_styles # {}
        THEN apply_inline_styles_to_run(r2, s.pending_important_styles)
        ELSE r2

\* handle_link(href, text, title): a sub-run of the current paragraph, wrapped
\* in a hyperlink
handle_link(s, href, text) ==
    [s EXCEPT !.doc[s.paragraph].runs = Append(@, [NewRun(text) EXCEPT !.href = href])]

\* handle_data from `if not self.paragraph: self.paragraph = add_paragraph()` on
emit_data(s, data) ==
    LET s1 == IF s.paragraph = NoParagraph
              THEN add_paragraph(s, NewParagraph(BuiltinDefaultStyle))
              ELSE s
        link == IF "a" \in DOMAIN s1.tags THEN s1.tags["a"] ELSE EmptyDict
    IN  IF "href" \in DOMAIN link
        THEN handle_link(s1, link["href"], data)
        ELSE [s1 EXCEPT
                !.doc[s1.paragraph].runs =
                    Append(@, apply_pending(s1, font_style_loop(s1, NewRun(data)))),
                !.run = [gen |-> s1.gen, para |-> s1.paragraph,
                         idx |-> Len(s1.doc[s1.paragraph].runs) + 1]]

\* a plausible slip: whitespace is not discarded when no paragraph is open
handle_data_keep_blank(s, data0) ==
    IF s.skip THEN s
    ELSE emit_data(s, IF "pre" \notin DOMAIN s.tags THEN remove_whitespace(data0)
                      ELSE data0)

\* a plausible slip: text is handled whether or not the translator is skipping
handle_data_unskipped(s, data0) ==
    LET data == IF "pre" \notin DOMAIN s.tags THEN remove_whitespace(data0)
                ELSE data0
    IN  IF s.paragraph = NoParagraph /\ "pre" \notin DOMAIN s.tags
           /\ remove_whitespace(data) = ""
        THEN s
        ELSE emit_data(s, data)

handle_data(s, data0) ==
    IF s.skip THEN s
    ELSE LET data == IF "pre" \notin DOMAIN s.tags THEN remove_whitespace(data0)
                     ELSE data0
         IN  IF s.paragraph = NoParagraph /\ "pre" \notin DOMAIN s.tags
                /\ remove_whitespace(data) = ""
             THEN s
             ELSE emit_data(s, data)

(***************************************************************************)
(* Table geometry builder.  A table is modelled after get_table_rows and   *)
(* get_table_columns: the sequence of its selected rows, each the sequence *)
(* of its th/td cells, each cell a record of its int(rowspan) and          *)
(* int(colspan).  Grid coordinates count from 0, as in the code.           *)
(***************************************************************************)
\* sum(int(col.get("colspan", 1)) for col in cols)
RECURSIVE row_col_count(_)
row_col_count(cols) ==
    IF cols = <<>> THEN 0 ELSE Head(cols).colspan + row_col_count(Tail(cols))

\* for col in cols: if rowspan > 1: max_rows = max(max_rows, row_idx + rowspan)
RECURSIVE rowspan_loop(_, _, _)
rowspan_loop(cols, row_idx, max_rows) ==
    IF cols = <<>> THEN max_rows
    ELSE rowspan_loop(Tail(cols), row_idx,
                      IF Head(cols).rowspan > 1
                      THEN Max(max_rows, row_idx + Head(cols).rowspan)
                      ELSE max_rows)

\* for row_idx, row in enumerate(rows): ...; return max_rows, max_cols
RECURSIVE dimensions_loop(_, _, _, _)
dimensions_loop(rows, row_idx, max_rows, max_cols) ==
    IF row_idx >= Len(rows) THEN <<max_rows, max_cols>>
    ELSE LET cols == rows[row_idx + 1] IN
         dimensions_loop(rows, row_idx + 1,
                         rowspan_loop(cols, row_idx, max_rows),
                         Max(max_cols, row_col_count(cols)))

\* a plausible slip: the row count is not extended by rowspans
get_table_dimensions_norowspan(table_soup) ==
    IF table_soup = <<>> THEN <<0, 0>>
    ELSE <<Len(table_soup),
           dimensions_loop(table_soup, 0, Len(table_soup), 0)[2]>>

get_table_dimensions(table_soup) ==
    IF table_soup = <<>> THEN <<0, 0>>
    ELSE dimensions_loop(table_soup, 0, Len(table_soup), 0)

\* while used_cells[cell_row][col_offset]: col_offset += 1
\* The result is the first free column from col_offset on, or cols when the
\* loop runs off the row (used_cells[cell_row][cols] raises IndexError).
RECURSIVE skip_used(_, _, _, _)
skip_used(used_cells, cell_row, col_offset, cols) ==
    IF col_offset >= cols THEN cols
    ELSE IF <<cell_row, col_offset>> \in used_cells
         THEN skip_used(used_cells, cell_row, col_offset + 1, cols)
         ELSE col_offset

\* the grid coordinates of the rectangle a cell anchored at (r, c) spans
Region(r, c, rowspan, colspan) ==
    {<<r + i, c + j>> : i \in 0 .. rowspan - 1, j \in 0 .. colspan - 1}

\* the table under construction: the markup side of handle_table
TableInput == [pc |-> "markup", table |-> <<>>]

\* handle_table up to the placement loops: dimensions, add_table, used_cells
table_begin(t) ==
    LET dims == get_table_dimensions(t.table) IN
    [pc |-> "place", table |-> t.table,
     rows |-> dims[1], cols |-> dims[2],   \* self.doc.add_table(rows, cols)
     used_cells |-> {},                    \* the coordinates whose entry is True
     cell_row |-> 0,                       \* index of the row being placed
     cell_idx |-> 0,                       \* number of cells of that row placed
     col_offset |-> 0,
     cells |-> <<>>]                       \* table.cell(..)/merge(..) calls so far

\* one pass of the body of `for col in self.get_table_columns(row)`
table_place_cell(t) ==
    LET col == t.table[t.cell_row + 1][t.cell_idx + 1]
        current_col == skip_used(t.used_cells, t.cell_row, t.col_offset, t.cols)
        current_row == t.cell_row
        rowspan == col.rowspan
        colspan == col.colspan
    IN  IF current_col >= t.cols
           \/ current_col + (colspan - 1) >= t.cols
           \/ current_row + (rowspan - 1) >= t.rows
        THEN [t EXCEPT !.pc = "raised"]   \* IndexError: the pass does not complete
        ELSE [t EXCEPT
                !.cells = Append(@, [row |-> current_row, col |-> current_col,
                                     rowspan |-> rowspan, colspan |-> colspan]),
                !.used_cells = @ \cup Region(current_row, current_col,
                                             rowspan, colspan),
                !.col_offset = current_col + colspan,
                !.cell_idx = @ + 1]

\* the row's cells are exhausted: the next row starts with col_offset = 0, and
\* after the last row handle_table goes on to enter the skip region
table_next_row(t) ==
    IF t.cell_row + 1 >= Len(t.table)
    THEN [t EXCEPT !.pc = "done"]
    ELSE [t EXCEPT !.cell_row = @ + 1, !.cell_idx = 0, !.col_offset = 0]

(***************************************************************************)
(* Border shorthand parser: parse_border_value of set_cell_borders.  A     *)
(* value is modelled after value.split(), as the sequence of its tokens.   *)
(* Sizes are in hundredths of a point.                                     *)
(***************************************************************************)
\* constants.DEFAULT_BORDER_SIZE (1pt), DEFAULT_BORDER_STYLE, DEFAULT_BORDER_COLOR
DEFAULT_BORDER_SIZE == 100
DEFAULT_BORDER_STYLE == "single"
DEFAULT_BORDER_COLOR == "000000"
\* constants.BORDER_STYLES: css border-style keyword -> w:val
BORDER_STYLES ==
    [none |-> "none", solid |-> "single", dashed |-> "dashed", dotted |-> "dotted",
     double |-> "double"]
\* constants.BORDER_KEYWORDS: width keyword -> width in px
BORDER_KEYWORDS == [thin |-> "1px", medium |-> "3px", thick |-> "5px"]

\* size = None
NoSize == -1

\* the tokens border_width_pattern matches, as (number, unit)
BorderWidths ==
    ("0px" :> [value |-> 0, unit |-> "px"]) @@ ("1px" :> [value |-> 1, unit |-> "px"])
    @@ ("3px" :> [value |-> 3, unit |-> "px"]) @@ ("5px" :> [value |-> 5, unit |-> "px"])
    @@ ("2pt" :> [value |-> 2, unit |-> "pt"]) @@ ("1in" :> [value |-> 1, unit |-> "in"])

\* utils.is_color and utils.parse_color(part, return_hex=True)
BorderColors == ("#ff0000" :> "FF0000") @@ ("blue" :> "0000FF")

\* parse_border_style
parse_border_style(value) ==
    IF value \in DOMAIN BORDER_STYLES THEN BORDER_STYLES[value] ELSE "none"

\* check_unit_keywords
check_unit_keywords(value) ==
    IF Lower(value) \in DOMAIN BORDER_KEYWORDS THEN BORDER_KEYWORDS[Lower(value)]
    ELSE value

\* the ValueError of float(..) on what is left of a token once its letters,
\* "!" and "%" are removed, when that is not a number ("" for "solid",
\* "#0000" for "#ff0000")
FloatError == -2

\* border_unit_converter: points (in hundredths) of a width; 0 stands for the
\* results that are false in `border_unit_converter(..) or default_size`
\* (0.0, and None for a unit that is not one of the lower-case units)
border_unit_converter(unit_value) ==
    LET v == check_unit_keywords(unit_value) IN
    IF Lower(v) \notin DOMAIN BorderWidths THEN FloatError
    ELSE IF v \notin DOMAIN BorderWidths THEN 0
    ELSE LET value == BorderWidths[v].value
             unit == BorderWidths[v].unit
         IN  CASE unit = "px" -> value * 75
               [] unit = "cm" -> value * 2835
               [] unit = "in" -> value * 7200
               [] unit = "pt" -> value * 100
               [] unit \in {"rem", "em"} -> value * 1200
               [] OTHER -> 0

\* a plausible slip: `break` in place of `continue` once the size is found
RECURSIVE border_parts_loop_break(_, _, _, _)
border_parts_loop_break(parts, size, style, color) ==
    IF parts = <<>> THEN [size |-> size, style |-> style, color |-> color]
    ELSE LET clean_part == Lower(Head(parts)) IN
         IF clean_part \in DOMAIN BorderWidths \/ clean_part \in DOMAIN BORDER_KEYWORDS
         THEN [size |-> IF border_unit_converter(clean_part) # 0
                        THEN border_unit_converter(clean_part)
                        ELSE DEFAULT_BORDER_SIZE,
               style |-> style, color |-> color]
         ELSE IF clean_part \in DOMAIN BORDER_STYLES
         THEN border_parts_loop_break(Tail(parts), size,
                                      parse_border_style(clean_part), color)
         ELSE IF clean_part \in DOMAIN BorderColors
         THEN border_parts_loop_break(Tail(parts), size, style,
                                      BorderColors[clean_part])
         ELSE border_parts_loop_break(Tail(parts), size, style, color)

\* for part in parts: ... of parse_border_value
RECURSIVE border_parts_loop(_, _, _, _)
border_parts_loop(parts, size, style, color) ==
    IF parts = <<>> THEN [size |-> size, style |-> style, color |-> color]
    ELSE LET clean_part == Lower(Head(parts)) IN
         IF clean_part \in DOMAIN BorderWidths \/ clean_part \in DOMAIN BORDER_KEYWORDS
         THEN border_parts_loop(Tail(parts),
                                IF border_unit_converter(clean_part) # 0
                                THEN border_unit_converter(clean_part)
                                ELSE DEFAULT_BORDER_SIZE,
                                style, color)
         ELSE IF clean_part \in DOMAIN BORDER_STYLES
         THEN border_parts_loop(Tail(parts), size, parse_border_style(clean_part),
                                color)
         ELSE IF clean_part \in DOMAIN BorderColors
         THEN border_parts_loop(Tail(parts), size, style, BorderColors[clean_part])
         ELSE border_parts_loop(Tail(parts), size, style, color)

parse_border_value(value) ==
    IF (Len(value) = 1 /\ value[1] = "none") \/ value = <<>>
    THEN [size |-> DEFAULT_BORDER_SIZE, style |-> DEFAULT_BORDER_STYLE,
          color |-> DEFAULT_BORDER_COLOR]
    ELSE LET r == border_parts_loop(value, NoSize, DEFAULT_BORDER_STYLE,
                                    DEFAULT_BORDER_COLOR)
         IN  IF r.size = NoSize THEN [r EXCEPT !.size = 100] ELSE r

(***************************************************************************)
(* set_cell_borders on one border declaration of a cell's style.  The      *)
(* property is modelled after css_prop.split("-"), the value after         *)
(* css_value.split().  The result is the error raised, if any, and the     *)
(* borders of the four sides.                                              *)
(***************************************************************************)
border_sides == <<"top", "right", "bottom", "left">>

\* constants.default_borders(): no side is drawn unless a declaration sizes it
default_borders ==
    [side \in {border_sides[i] : i \in 1..4} |->
        [size |-> 0, style |-> DEFAULT_BORDER_STYLE, color |-> DEFAULT_BORDER_COLOR]]

\* border_unit_converter(..) or default_size
or_default_size(size) == IF size = 0 THEN DEFAULT_BORDER_SIZE ELSE size

\* border_unit_converter(css_value) on the unsplit value: the empty value is
\* the default size, and float(..) raises on a value with a blank inside
border_unit_converter_value(values) ==
    IF values = <<>> THEN DEFAULT_BORDER_SIZE
    ELSE IF Len(values) = 1 THEN border_unit_converter(values[1])
    ELSE FloatError

BordersResult(error, borders) == [error |-> error, borders |-> borders]

\* borders[side]["size"] = size for every side of `sizes`, unless the
\* conversion of one of the sizes raised
SetSizes(borders, sizes) ==
    IF \E side \in DOMAIN sizes : sizes[side] = FloatError
    THEN BordersResult("ValueError", borders)
    ELSE BordersResult(NoError,
             [side \in DOMAIN borders |->
                 IF side \in DOMAIN sizes
                 THEN [borders[side] EXCEPT !.size = or_default_size(sizes[side])]
                 ELSE borders[side]])

\* parse_border_style(css_value.lower()) on the unsplit value
border_style_value(values) ==
    IF Len(values) = 1 THEN parse_border_style(Lower(values[1])) ELSE "none"

\* utils.parse_color(css_value, return_hex=True) on a value that is a color
parse_color(values) == BorderColors[Lower(values[1])]

\* borders[side][key] = value for every side of `sides`
SetComponent(borders, sides, key, value) ==
    BordersResult(NoError,
        [side \in DOMAIN borders |->
            IF side \notin sides THEN borders[side]
            ELSE IF key = "style" THEN [borders[side] EXCEPT !.style = value]
            ELSE [borders[side] EXCEPT !.color = value]])

set_cell_borders(css_prop, values) ==
    LET borders == default_borders
        all == {border_sides[i] : i \in 1..4}
    IN
    IF css_prop = <<"border">>
    THEN IF Len(values) \in {1, 3}
         THEN BordersResult(NoError, [side \in all |-> parse_border_value(values)])
         ELSE IF Len(values) = 2
         THEN SetSizes(borders,
                       [side \in all |->
                           IF side \in {"top", "bottom"}
                           THEN border_unit_converter(values[1])
                           ELSE border_unit_converter(values[2])])
         ELSE IF Len(values) = 4
         THEN SetSizes(borders,
                       [side \in all |->
                           border_unit_converter(
                               values[CHOOSE i \in 1..4 : border_sides[i] = side])])
         ELSE BordersResult(NoError, borders)
    ELSE IF css_prop = <<"border", "width">>
    THEN SetSizes(borders, [side \in all |-> border_unit_converter_value(values)])
    ELSE IF css_prop = <<"border", "color">>
    THEN SetComponent(borders, all, "color", parse_color(values))
    ELSE IF css_prop = <<"border", "style">>
    THEN SetComponent(borders, all, "style", border_style_value(values))
    ELSE LET side == css_prop[2]
             prop_type == IF Len(css_prop) > 2 THEN css_prop[3] ELSE NoTag
         IN  IF prop_type = "width"
             THEN IF border_unit_converter_value(values) = FloatError
                  THEN BordersResult("ValueError", borders)
                  ELSE IF side \notin all
                  THEN BordersResult("KeyError", borders)
                  ELSE SetSizes(borders,
                                [s \in {side} |-> border_unit_converter_value(values)])
             ELSE IF prop_type = "color"
             THEN IF side \notin all THEN BordersResult("KeyError", borders)
                  ELSE SetComponent(borders, {side}, "color", parse_color(values))
             ELSE IF prop_type = "style"
             THEN IF side \notin all THEN BordersResult("KeyError", borders)
                  ELSE SetComponent(borders, {side}, "style",
                                    border_style_value(values))
             ELSE IF side \notin all
             THEN BordersResult("KeyError", borders)
             ELSE BordersResult(NoError,
                      [borders EXCEPT ![side] = parse_border_value(values)])

(***************************************************************************)
(* Translation runs: the entry points add_html_to_document and             *)
(* add_html_to_cell, run_process, and handle_table with the child          *)
(* translators of its cells.                                               *)
(*                                                                         *)
(* The markup of a run is a forest of table elements: table i of markup m  *)
(* lies at m.loc[i], which is the body, the head, or cell c of an earlier  *)
(* table.  Every table has one row of MaxNestCells cells without spans.    *)
(* Around the tables lies the markup m.deco: deco.head at the start of the *)
(* head, deco.pre before and deco.post after the tables of the body,       *)
(* deco.cell at the start of every cell, each a sequence of events.        *)
(* A fragment is the whole markup (TopFrag) or the inner markup of a cell. *)
(***************************************************************************)
\* the events of HTMLParser: for a text event tag is the kind of text
StartEvent(tag, attrs) == [ev |-> "start", tag |-> tag, attrs |-> attrs]
EndEvent(tag) == [ev |-> "end", tag |-> tag, attrs |-> EmptyDict]
TextEvent(d) == [ev |-> "data", tag |-> d, attrs |-> EmptyDict]

\* markup with nothing but its tables
NoDeco == [head |-> <<>>, pre |-> <<>>, post |-> <<>>, cell |-> <<>>]

TopFrag == [table |-> 0, cell |-> 0]
CellFrag(i, c) == [table |-> i, cell |-> c]
InBody == [in |-> "body", table |-> 0, cell |-> 0]
InHead == [in |-> "head", table |-> 0, cell |-> 0]
InCell(i, c) == [in |-> "cell", table |-> i, cell |-> c]

\* the elements of a set of table ids in document order
RECURSIVE Ascending(_)
Ascending(S) ==
    IF S = {} THEN <<>>
    ELSE LET x == CHOOSE y \in S : \A z \in S : y <= z IN
         <<x>> \o Ascending(S \ {x})

\* the table elements that are children of a place of the markup
TablesAt(m, where) == Ascending({i \in 1 .. m.n : m.loc[i] = where})

\* find_all("table") below a node: every table under it in document order (an
\* element is followed by its descendants).  tables_in is find_all below a
\* place of the markup, descendants is table_soup.find_all("table") from the
\* c-th cell of table i on.
RECURSIVE tables_in(_, _)
RECURSIVE descendants(_, _, _)
tables_in(m, where) ==
    LET RECURSIVE each(_)
        each(ts) ==
            IF ts = <<>> THEN <<>>
            ELSE <<Head(ts)>> \o descendants(m, Head(ts), 1) \o each(Tail(ts))
    IN  each(TablesAt(m, where))
descendants(m, i, c) ==
    IF c > MaxNestCells THEN <<>>
    ELSE tables_in(m, InCell(i, c)) \o descendants(m, i, c + 1)

\* soup.find_all("table") on the soup of a fragment
find_all(m, frag) ==
    IF frag = TopFrag THEN tables_in(m, InHead) \o tables_in(m, InBody)
    ELSE tables_in(m, InCell(frag.table, frag.cell))

\* the events HTMLParser.feed produces for a fragment, in document order
RECURSIVE events_of_tables(_, _)
RECURSIVE events_of_cells(_, _, _)
events_of_tables(m, ts) ==
    IF ts = <<>> THEN <<>>
    ELSE <<StartEvent("table", EmptyDict), StartEvent("tr", EmptyDict)>>
         \o events_of_cells(m, Head(ts), 1)
         \o <<EndEvent("tr"), EndEvent("table")>>
         \o events_of_tables(m, Tail(ts))
events_of_cells(m, i, c) ==
    IF c > MaxNestCells THEN <<>>
    ELSE <<StartEvent("td", EmptyDict)>>
         \o m.deco.cell
         \o events_of_tables(m, TablesAt(m, InCell(i, c)))
         \o <<EndEvent("td")>>
         \o events_of_cells(m, i, c + 1)

events_of(m, frag) ==
    IF frag = TopFrag
    THEN (IF TablesAt(m, InHead) = <<>> /\ m.deco.head = <<>> THEN <<>>
          ELSE <<StartEvent("head", EmptyDict)>>
               \o m.deco.head
               \o events_of_tables(m, TablesAt(m, InHead))
               \o <<EndEvent("head")>>)
         \o m.deco.pre
         \o events_of_tables(m, TablesAt(m, InBody))
         \o m.deco.post
    ELSE m.deco.cell \o events_of_tables(m, TablesAt(m, InCell(frag.table, frag.cell)))

\* ignore_nested_tables(tables_soup)
RECURSIVE ignore_nested_loop(_, _, _, _)
ignore_nested_loop(m, tables_soup, nest, new_tables) ==
    IF tables_soup = <<>> THEN new_tables
    ELSE IF nest # 0
         THEN ignore_nested_loop(m, Tail(tables_soup), nest - 1, new_tables)
         ELSE ignore_nested_loop(m, Tail(tables_soup),
                                 Len(descendants(m, Head(tables_soup), 1)),
                                 Append(new_tables, Head(tables_soup)))

\* a plausible slip: nest counts the tables that are children of a cell of
\* the table, not all the tables below it
RECURSIVE ignore_nested_loop_children(_, _, _, _)
ignore_nested_loop_children(m, tables_soup, nest, new_tables) ==
    IF tables_soup = <<>> THEN new_tables
    ELSE IF nest # 0
         THEN ignore_nested_loop_children(m, Tail(tables_soup), nest - 1, new_tables)
         ELSE ignore_nested_loop_children(
                  m, Tail(tables_soup),
                  Cardinality({i \in 1 .. m.n : m.loc[i].table = Head(tables_soup)}),
                  Append(new_tables, Head(tables_soup)))

ignore_nested_tables_children(m, tables_soup) ==
    ignore_nested_loop_children(m, tables_soup, 0, <<>>)

ignore_nested_tables(m, tables_soup) == ignore_nested_loop(m, tables_soup, 0, <<>>)

\* get_table_rows(table_soup) with get_table_columns of each row: the one row
\* of the table, each cell with its spans and its inner markup
get_table_rows(m, table_soup) ==
    << [c \in 1 .. MaxNestCells |->
          [rowspan |-> 1, colspan |-> 1, frag |-> CellFrag(table_soup, c)]] >>

\* get_tables()
get_tables(s) ==
    IF s.soup = NoSoup
    THEN [s EXCEPT !.options.tables = FALSE]
    ELSE [s EXCEPT !.tables = ignore_nested_tables(s.soup.markup,
                                                   find_all(s.soup.markup, s.soup.frag)),
                   !.table_no = 0]

\* HTMLParser.feed(html): the callbacks in document order; an exception ends it
RECURSIVE feed(_, _)
feed(s, events) ==
    IF events = <<>> \/ s.error # NoError THEN s
    ELSE LET e == Head(events) IN
         feed(IF e.ev = "start" THEN handle_starttag(s, e.tag, e.attrs)
              ELSE IF e.ev = "end" THEN handle_endtag(s, e.tag)
              ELSE handle_data(s, e.tag),
              Tail(events))

\* run_process(html) up to the call of feed
run_setup(s, html) ==
    LET s1 == IF s.bs THEN [s EXCEPT !.soup = [markup |-> html.markup,
                                               frag |-> html.frag]]
              ELSE s
    IN  IF s1.options.tables THEN get_tables(s1) ELSE s1

\* run_process(html)
run_process(s, html) == feed(run_setup(s, html), events_of(html.markup, html.frag))

\* the configuration attributes of a translator
Config(s) ==
    [options |-> s.options,
     table_row_selectors |-> s.table_row_selectors,
     table_style |-> s.table_style,
     style_map |-> s.style_map,
     tag_style_overrides |-> s.tag_style_overrides,
     default_paragraph_style |-> s.default_paragraph_style]

\* the target of a run as the caller sees it afterwards
SinkOf(s) == [kind |-> s.sink, paragraphs |-> s.doc, tables |-> s.doc_tables]

\* what an entry point leaves behind: the translator after the call, the
\* exception it raised, the target after the call
RunOutcome(s) == [self |-> s, raised |-> s.error, document |-> SinkOf(s)]

\* if not self.doc.paragraphs: self.doc.add_paragraph("")
end_with_paragraph(s) ==
    IF s.error = NoError /\ s.doc = <<>>
    THEN [s EXCEPT !.doc = <<NewParagraph(BuiltinDefaultStyle)>>]
    ELSE s

\* add_html_to_cell(html, cell)
add_html_to_cell(s, html, cell) ==
    IF cell.kind # "Cell"
    THEN [self |-> s, raised |-> "ValueError", document |-> cell]
    ELSE RunOutcome(end_with_paragraph(
             run_process(set_initial_attrs(s, [cell EXCEPT !.paragraphs = Tail(@)]),
                         html)))

\* a plausible slip: the arguments are validated after the run was set up
add_html_to_document_late_check(s, html, document) ==
    IF html.type # "str" \/ document.kind \notin {"Document", "Cell"}
    THEN [self |-> set_initial_attrs(s, document), raised |-> "ValueError",
          document |-> document]
    ELSE RunOutcome(run_process(set_initial_attrs(s, document), html))

\* add_html_to_document(html, document)
add_html_to_document(s, html, document) ==
    IF html.type # "str"
    THEN [self |-> s, raised |-> "ValueError", document |-> document]
    ELSE IF document.kind \notin {"Document", "Cell"}
    THEN [self |-> s, raised |-> "ValueError", document |-> document]
    ELSE RunOutcome(run_process(set_initial_attrs(s, document), html))

\* copy_settings_from(other)
copy_settings_from(s, other) ==
    [s EXCEPT !.table_style = other.table_style,
              !.style_map = other.style_map,
              !.tag_style_overrides = other.tag_style_overrides,
              !.default_paragraph_style = other.default_paragraph_style]

\* the table styles the target document knows
TableStyles == {"Table Grid"}

\* " ".join(re.findall(r"[A-Z][a-z]*|[0-9]", self.table_style)) on the style
\* names of the model
table_style_name(name) ==
    CASE name = "TableGrid" -> "Table Grid"
      [] name = "Table Grid" -> "Table Grid"
      [] OTHER -> name

\* the placement loops of handle_table run to their end
RECURSIVE table_run(_)
table_run(t) ==
    IF t.pc # "place" THEN t
    ELSE IF t.cell_row < Len(t.table) /\ t.cell_idx < Len(t.table[t.cell_row + 1])
         THEN table_run(table_place_cell(t))
         ELSE table_run(table_next_row(t))

\* the cells of a table in the order the loops visit them
RECURSIVE Flatten(_)
Flatten(rows) == IF rows = <<>> THEN <<>> ELSE Head(rows) \o Flatten(Tail(rows))

\* child_parser = HtmlToDocx(); copy_settings_from(self); add_html_to_cell(..)
\* for the placed cells from the k-th on.  The result is the cells filled so
\* far and the exception a child raised; r is what the child of cell k left.
RECURSIVE fill_cells(_, _, _, _, _)
fill_cell(s, placed, cols, k, filled, r) ==
    LET docx_cell == [at |-> placed[k], frag |-> cols[k].frag,
                      parser |-> Config(r.self),
                      paragraphs |-> r.document.paragraphs,
                      tables |-> r.document.tables]
    IN  IF r.raised # NoError
        THEN [cells |-> Append(filled, docx_cell), error |-> r.raised]
        ELSE fill_cells(s, placed, cols, k + 1, Append(filled, docx_cell))

fill_cells(s, placed, cols, k, filled) ==
    IF k > Len(placed) THEN [cells |-> filled, error |-> NoError]
    ELSE fill_cell(s, placed, cols, k, filled,
                   add_html_to_cell(
                       copy_settings_from(HtmlToDocx(EmptyDict, EmptyDict,
                                                     BuiltinDefaultStyle), s),
                       [type |-> "str", markup |-> s.soup.markup,
                        frag |-> cols[k].frag],
                       NewCell))

\* handle_table from the placement loops on: t is the state the loops ended
\* in, f the cells the child translators filled
table_finish(s, table_soup, added, t, f) ==
    LET s2 == [s EXCEPT !.doc_tables =
                  Append(@, [added EXCEPT !.style = s.table_style,
                                          !.cells = f.cells])]
    IN  IF f.error # NoError THEN [s2 EXCEPT !.error = f.error]
        ELSE IF t.pc = "raised" THEN [s2 EXCEPT !.error = "IndexError"]
        ELSE [s2 EXCEPT !.instances_to_skip =
                           Len(descendants(s.soup.markup, table_soup, 1)),
                        !.skip_tag = "table", !.skip = TRUE]

\* handle_table from add_table on
table_fill(s1, table_soup, added, rows, t) ==
    table_finish(s1, table_soup, added, t,
                 fill_cells(s1, t.cells, Flatten(rows), 1, <<>>))

\* handle_table(current_attrs)
handle_table(s, current_attrs) ==
    IF s.table_no >= Len(s.tables) THEN [s EXCEPT !.error = "IndexError"]
    ELSE LET table_soup == s.tables[s.table_no + 1]
             rows == get_table_rows(s.soup.markup, table_soup)
             t0 == table_begin([pc |-> "markup", table |-> rows])
             added == [elem |-> table_soup, rows |-> t0.rows, cols |-> t0.cols,
                       style |-> NoStyle, cells |-> <<>>]
             s1 == [s EXCEPT !.table_style = table_style_name(@)]
         IN  IF s.table_style # NoStyle /\ s1.table_style \notin TableStyles
             THEN [s1 EXCEPT !.doc_tables = Append(@, added),
                             !.error = "ValueError"]
             ELSE table_fill(s1, table_soup, added, rows, table_run(t0))

(***************************************************************************)
(* The markup fed to the translator.  run_process feeds the markup to      *)
(* HTMLParser.feed, which calls handle_starttag, handle_endtag and         *)
(* handle_data in document order.  The markup is well nested (the output   *)
(* of the BeautifulSoup pass): an end tag closes the innermost open        *)
(* element.  Any element may be a child of any element.                    *)
(***************************************************************************)
Attr(name, value) == name :> value
FontWeight(value) == Attr("style", Attr("font-weight", value))

\* the elements of the block/inline markup
BlockElements ==
    {[tag |-> "div", attrs |-> EmptyDict],
     [tag |-> "div", attrs |-> Attr("class", <<"x">>)],
     [tag |-> "p", attrs |-> EmptyDict],
     [tag |-> "p", attrs |-> Attr("class", <<"y">>)],
     [tag |-> "p", attrs |-> FontWeight(<<"normal", "!important">>)],
     [tag |-> "span", attrs |-> EmptyDict],
     [tag |-> "span", attrs |-> FontWeight(<<"bold">>)],
     [tag |-> "span", attrs |-> FontWeight(<<"BOLD", "!IMPORTANT">>)],
     [tag |-> "b", attrs |-> EmptyDict]}

\* the elements of the list markup
ListElements ==
    {[tag |-> "ol", attrs |-> EmptyDict],
     [tag |-> "ul", attrs |-> EmptyDict],
     [tag |-> "li", attrs |-> EmptyDict]}

\* the kinds of text data: with a non-blank character, whitespace only
DataKinds == {"T", " "}

\* the class -> style maps and tag -> style maps of the translator under check
BlockStyleMap == ("x" :> "No Spacing") @@ ("y" :> "Heading 1")
BlockTagOverrides == {EmptyDict, "p" :> "Heading 2"}

\* the innermost of the positions hits in open; 0 if there is none
InnermostOf(hits) ==
    IF hits = {} THEN 0 ELSE CHOOSE i \in hits : \A j \in hits : j <= i

\* the style of the innermost open div whose class resolves to a valid style
EnclosingDivStyle ==
    LET i == InnermostOf({j \in DOMAIN open :
                            /\ open[j].tag = "div"
                            /\ custom_style_of(tr, "div", open[j].attrs) # NoStyle})
    IN  IF i = 0 THEN NoStyle ELSE custom_style_of(tr, "div", open[i].attrs)

\* the ordered list an <li> opened now is an item of: the id of the nearest open
\* list element when that is an <ol>, else 0
OwnerList ==
    LET i == InnermostOf({j \in DOMAIN open : open[j].tag \in {"ol", "ul"}})
    IN  IF i = 0 THEN 0
        ELSE IF open[i].tag = "ol" THEN open[i].eid ELSE 0

\* the run font values that the !important font-weight declarations of the open
\* elements ask for
ImportantBold ==
    {apply_inline_styles_to_run([bold |-> "None"],
                                parse_inline_styles(open[i].attrs["style"]).important).bold :
        i \in {j \in DOMAIN open :
                 /\ "style" \in DOMAIN open[j].attrs
                 /\ "font-weight" \in
                      DOMAIN parse_inline_styles(open[j].attrs["style"]).important}}

\* what an observer records of one event: s is the translator before, s2 after;
\* for a text event tag is the kind of text
Observe(ev, tag, attrs, s, s2) ==
    [ev |-> ev, tag |-> tag, attrs |-> attrs,
     skipping |-> s.skip,
     in_item |-> \E i \in DOMAIN open : open[i].tag = "li",
     own |-> IF ev = "start" THEN custom_style_of(s, tag, attrs) ELSE NoStyle,
     \* the style name the cascade resolves to, known to the document or not
     resolved |-> IF ev = "start" THEN get_word_style_for_element(s, tag, attrs)
                  ELSE NoStyle,
     \* the number of paragraphs this event added to the document
     added |-> Len(s2.doc) - Len(s.doc),
     encl |-> EnclosingDivStyle,
     owner |-> IF ev = "start" /\ tag = "li" THEN OwnerList ELSE 0,
     important |-> IF ev = "data" THEN ImportantBold ELSE {},
     \* the paragraph this event added to the document, 0 if none
     para |-> IF Len(s2.doc) > Len(s.doc) THEN Len(s2.doc) ELSE 0,
     \* the run this event added, as <<paragraph, run>>, <<>> if none
     run |-> IF s2.paragraph # NoParagraph /\ s2.paragraph <= Len(s2.doc)
                /\ (s2.paragraph > Len(s.doc)
                    \/ Len(s2.doc[s2.paragraph].runs) > Len(s.doc[s2.paragraph].runs))
                /\ Len(s2.doc[s2.paragraph].runs) > 0 /\ ev = "data"
             THEN <<s2.paragraph, Len(s2.doc[s2.paragraph].runs)>>
             ELSE <<>>,
     \* the numbering id this event requested from the numbering store, 0 if none
     requested |-> IF Len(s2.numbering) > Len(s.numbering)
                   THEN s2.numbering[Len(s2.numbering)].numId ELSE 0]

StartTag(e) ==
    LET s2 == handle_starttag(tr, e.tag, e.attrs) IN
    /\ tr' = s2
    /\ open' = Append(open, [tag |-> e.tag, attrs |-> e.attrs, eid |-> nev + 1])
    /\ hist' = Append(hist, Observe("start", e.tag, e.attrs, tr, s2))
    /\ nev' = nev + 1
    /\ UNCHANGED <<arg, ret, tb>>

EndTag ==
    LET e == open[Len(open)]
        s2 == handle_endtag(tr, e.tag)
    IN  /\ tr' = s2
        /\ open' = SubSeq(open, 1, Len(open) - 1)
        /\ hist' = Append(hist, Observe("end", e.tag, e.attrs, tr, s2))
        /\ nev' = nev + 1
        /\ UNCHANGED <<arg, ret, tb>>

Data(d) ==
    LET s2 == handle_data(tr, d) IN
    /\ tr' = s2
    /\ hist' = Append(hist, Observe("data", d, EmptyDict, tr, s2))
    /\ nev' = nev + 1
    /\ UNCHANGED <<open, arg, ret, tb>>

(***************************************************************************)
(* Spec: the translator fed block and inline markup.                       *)
(***************************************************************************)
Init ==
    /\ tr \in {NewTranslator(BlockStyleMap, o, "Normal") : o \in BlockTagOverrides}
    /\ open = <<>>
    /\ nev = 0
    /\ hist = <<>>
    /\ arg = <<>>
    /\ ret = NotRun
    /\ tb = TableInput

FeedStartTag ==
    /\ nev < MaxEvents
    /\ Len(open) < MaxDepth
    /\ \E e \in BlockElements : StartTag(e)

FeedEndTag ==
    /\ nev < MaxEvents
    /\ open # <<>>
    /\ EndTag

FeedData ==
    /\ nev < MaxEvents
    /\ \E d \in DataKinds : Data(d)

Next == FeedStartTag \/ FeedEndTag \/ FeedData

Spec == Init /\ [][Next]_vars

(***************************************************************************)
(* SpecPara: the translator fed paragraphs and headings, configured with   *)
(* style names the target may not know, on a document or a table cell.     *)
(***************************************************************************)
\* the elements of the paragraph/heading markup
ParaElements ==
    {[tag |-> "p", attrs |-> EmptyDict],
     [tag |-> "p", attrs |-> Attr("class", <<"k">>)],
     [tag |-> "p", attrs |-> Attr("class", <<"u", "k">>)],
     [tag |-> "h1", attrs |-> EmptyDict],
     [tag |-> "h1", attrs |-> Attr("class", <<"k">>)],
     [tag |-> "h2", attrs |-> Attr("class", <<"u">>)],
     [tag |-> "h9", attrs |-> EmptyDict],
     [tag |-> "div", attrs |-> Attr("class", <<"k">>)],
     [tag |-> "li", attrs |-> EmptyDict],
     [tag |-> "a", attrs |-> Attr("href", "#x")]}

\* class k maps to a style the document knows, class u to one it does not
ParaStyleMap == ("k" :> "Heading 3") @@ ("u" :> "Bogus")
ParaTagOverrides ==
    {EmptyDict,
     ("p" :> "Heading 2") @@ ("h2" :> "No Spacing"),
     ("p" :> "Bogus") @@ ("h1" :> "Bogus")}
\* None, the signature's default, a known style, an unknown style
ParaDefaultStyles == {NoStyle, "Normal", "Heading 1", "Bogus"}
\* a new document; a table cell whose initial paragraph add_html_to_cell deleted
ParaSinks == {NewDocument, [NewCell EXCEPT !.paragraphs = <<>>]}

InitPara ==
    /\ tr \in {set_initial_attrs(HtmlToDocx(ParaStyleMap, o, d), k) :
                  o \in ParaTagOverrides, d \in ParaDefaultStyles, k \in ParaSinks}
    /\ open = <<>>
    /\ nev = 0
    /\ hist = <<>>
    /\ arg = <<>>
    /\ ret = NotRun
    /\ tb = TableInput

ParaStartTag ==
    /\ nev < MaxParaEvents
    /\ Len(open) < MaxDepth
    /\ \E e \in ParaElements : StartTag(e)

ParaEndTag ==
    /\ nev < MaxParaEvents
    /\ open # <<>>
    /\ EndTag

ParaData ==
    /\ nev < MaxParaEvents
    /\ \E d \in DataKinds : Data(d)

NextPara == ParaStartTag \/ ParaEndTag \/ ParaData

SpecPara == InitPara /\ [][NextPara]_vars

(***************************************************************************)
(* SpecLink: the translator fed paragraphs, anchors and bold elements.  An *)
(* anchor does not open inside an open anchor (anchors are interactive     *)
(* content, which an anchor may not contain).                              *)
(***************************************************************************)
LinkElements ==
    {[tag |-> "p", attrs |-> EmptyDict],
     [tag |-> "a", attrs |-> Attr("href", "#x")],
     [tag |-> "b", attrs |-> EmptyDict]}

InitLink ==
    /\ tr = NewTranslator(EmptyDict, EmptyDict, "Normal")
    /\ open = <<>>
    /\ nev = 0
    /\ hist = <<>>
    /\ arg = <<>>
    /\ ret = NotRun
    /\ tb = TableInput

LinkStartTag ==
    /\ nev < MaxLinkEvents
    /\ Len(open) < MaxDepth
    /\ \E e \in LinkElements :
          /\ e.tag = "a" => \A i \in DOMAIN open : open[i].tag # "a"
          /\ StartTag(e)

LinkEndTag ==
    /\ nev < MaxLinkEvents
    /\ open # <<>>
    /\ EndTag

LinkData ==
    /\ nev < MaxLinkEvents
    /\ \E d \in DataKinds : Data(d)

NextLink == LinkStartTag \/ LinkEndTag \/ LinkData

SpecLink == InitLink /\ [][NextLink]_vars

(***************************************************************************)
(* SpecImg: the translator, with image support on or off, fed paragraphs,  *)
(* text and images.  An image is written <img ...>, for which the parser   *)
(* calls handle_starttag only, or <img ... />, for which it calls          *)
(* handle_startendtag.  No callback follows one that raised.               *)
(***************************************************************************)
ImgElements ==
    {[tag |-> "img", attrs |-> EmptyDict],
     [tag |-> "img", attrs |-> Attr("src", "a.png")]}

ImgTranslators ==
    {set_initial_attrs(
        [HtmlToDocx(EmptyDict, EmptyDict, "Normal") EXCEPT !.options.images = i],
        NewDocument) : i \in BOOLEAN}

InitImg ==
    /\ tr \in ImgTranslators
    /\ open = <<>>
    /\ nev = 0
    /\ hist = <<>>
    /\ arg = <<>>
    /\ ret = NotRun
    /\ tb = TableInput

ImgDue == nev < MaxImgEvents /\ tr.error = NoError

ImgStartTag ==
    /\ ImgDue
    /\ Len(open) < MaxDepth
    /\ StartTag([tag |-> "p", attrs |-> EmptyDict])

ImgEndTag ==
    /\ ImgDue
    /\ open # <<>>
    /\ EndTag

ImgData ==
    /\ ImgDue
    /\ \E d \in DataKinds : Data(d)

\* <img ...>
ImgVoidTag ==
    /\ ImgDue
    /\ \E e \in ImgElements :
          LET s2 == handle_starttag(tr, e.tag, e.attrs) IN
          /\ tr' = s2
          /\ hist' = Append(hist, Observe("start", e.tag, e.attrs, tr, s2))
    /\ nev' = nev + 1
    /\ UNCHANGED <<open, arg, ret, tb>>

\* <img ... />
ImgSelfClosingTag ==
    /\ ImgDue
    /\ \E e \in ImgElements :
          LET s2 == handle_startendtag(tr, e.tag, e.attrs) IN
          /\ tr' = s2
          /\ hist' = Append(hist, Observe("startend", e.tag, e.attrs, tr, s2))
    /\ nev' = nev + 1
    /\ UNCHANGED <<open, arg, ret, tb>>

NextImg == ImgStartTag \/ ImgEndTag \/ ImgData \/ ImgVoidTag \/ ImgSelfClosingTag

SpecImg == InitImg /\ [][NextImg]_vars

(***************************************************************************)
(* SpecList: the translator fed list markup.                               *)
(***************************************************************************)
InitList ==
    /\ tr = NewTranslator(EmptyDict, EmptyDict, "Normal")
    /\ open = <<>>
    /\ nev = 0
    /\ hist = <<>>
    /\ arg = <<>>
    /\ ret = NotRun
    /\ tb = TableInput

\* an <li> may open below MaxListDepth open elements
ListStartTag ==
    /\ nev < MaxListEvents
    /\ \E e \in ListElements :
          /\ Len(open) < MaxListDepth \/ (e.tag = "li" /\ Len(open) = MaxListDepth)
          /\ StartTag(e)

ListEndTag ==
    /\ nev < MaxListEvents
    /\ open # <<>>
    /\ EndTag

NextList == ListStartTag \/ ListEndTag

SpecList == InitList /\ [][NextList]_vars

(***************************************************************************)
(* SpecStyle: get_word_style_for_element on every tag, class attribute,    *)
(* class -> style map and tag -> style map of the sets below.              *)
(***************************************************************************)
ResolverClasses == {"a", "b"}               \* the classes a map may have as keys
ResolverTokens == {"a", "b", "u"}           \* the tokens of a class attribute
ResolverStyles == {"Heading 1", "Heading 2", "Heading 3"}
ResolverTags == {"h1", "p"}

\* the dicts from a subset of keys to values
Dicts(keys, values) == UNION {[d -> values] : d \in SUBSET keys}

\* the attribute dicts: no class attribute, or one of up to MaxClassTokens tokens
ResolverAttrs ==
    {EmptyDict} \cup
    {Attr("class", c) :
        c \in UNION {[1 .. n -> ResolverTokens] : n \in 0 .. MaxClassTokens}}

InitStyle ==
    /\ tr \in {NewTranslator(m, o, "Normal") :
                 m \in Dicts(ResolverClasses, ResolverStyles),
                 o \in Dicts(ResolverTags, {"Heading 2", "Heading 3"})}
    /\ arg \in {[tag |-> t, attrs |-> a] : t \in ResolverTags, a \in ResolverAttrs}
    /\ ret = NotRun
    /\ open = <<>>
    /\ nev = 0
    /\ hist = <<>>
    /\ tb = TableInput

Resolve ==
    /\ ret = NotRun
    /\ ret' = get_word_style_for_element(tr, arg.tag, arg.attrs)
    /\ UNCHANGED <<tr, open, nev, hist, arg, tb>>

NextStyle == Resolve

SpecStyle == InitStyle /\ [][NextStyle]_vars

(***************************************************************************)
(* SpecTable: handle_table on every table of up to MaxRows rows and        *)
(* MaxTableCells cells with spans up to MaxSpan.  The table is written     *)
(* cell by cell as markup, then handle_table runs its placement loops.     *)
(***************************************************************************)
Spans == 1 .. MaxSpan

RECURSIVE CellCount(_)
CellCount(table) ==
    IF table = <<>> THEN 0 ELSE Len(Head(table)) + CellCount(Tail(table))

InitTable ==
    /\ tb = TableInput
    /\ tr = NewTranslator(EmptyDict, EmptyDict, "Normal")
    /\ open = <<>>
    /\ nev = 0
    /\ hist = <<>>
    /\ arg = <<>>
    /\ ret = NotRun

\* the markup gets one more <tr>
MarkupRow ==
    /\ tb.pc = "markup"
    /\ Len(tb.table) < MaxRows
    /\ tb' = [tb EXCEPT !.table = Append(@, <<>>)]
    /\ UNCHANGED <<tr, open, nev, hist, arg, ret>>

\* the last <tr> of the markup gets one more <td>
MarkupCell ==
    /\ tb.pc = "markup"
    /\ tb.table # <<>>
    /\ CellCount(tb.table) < MaxTableCells
    /\ \E rs \in Spans, cs \in Spans :
          tb' = [tb EXCEPT !.table[Len(tb.table)] =
                              Append(@, [rowspan |-> rs, colspan |-> cs])]
    /\ UNCHANGED <<tr, open, nev, hist, arg, ret>>

\* handle_table is called on the table
TableBegin ==
    /\ tb.pc = "markup"
    /\ tb' = table_begin(tb)
    /\ UNCHANGED <<tr, open, nev, hist, arg, ret>>

\* the inner loop has a next cell
TablePlaceCell ==
    /\ tb.pc = "place"
    /\ tb.cell_row < Len(tb.table)
    /\ tb.cell_idx < Len(tb.table[tb.cell_row + 1])
    /\ tb' = table_place_cell(tb)
    /\ UNCHANGED <<tr, open, nev, hist, arg, ret>>

\* the inner loop is exhausted (or the table has no row)
TableNextRow ==
    /\ tb.pc = "place"
    /\ IF tb.cell_row >= Len(tb.table) THEN TRUE
       ELSE tb.cell_idx >= Len(tb.table[tb.cell_row + 1])
    /\ tb' = table_next_row(tb)
    /\ UNCHANGED <<tr, open, nev, hist, arg, ret>>

NextTable == MarkupRow \/ MarkupCell \/ TableBegin \/ TablePlaceCell \/ TableNextRow

SpecTable == InitTable /\ [][NextTable]_vars

(***************************************************************************)
(* SpecBorder: parse_border_value on every value of up to MaxBorderTokens  *)
(* tokens.                                                                 *)
(***************************************************************************)
\* size tokens, border-style keywords, color tokens, and a token that is none
BorderTokens ==
    {"1px", "2PT", "0px", "thin", "solid", "SOLID", "dashed", "none",
     "#ff0000", "blue", "foo"}

RECURSIVE SeqsUpTo(_, _)
SeqsUpTo(S, n) ==
    IF n = 0 THEN {<<>>}
    ELSE LET shorter == SeqsUpTo(S, n - 1) IN
         shorter \cup {Append(q, x) : q \in shorter, x \in S}

\* ret is <<>> before the call and the one-element sequence of the result after
InitBorder ==
    /\ arg \in SeqsUpTo(BorderTokens, MaxBorderTokens)
    /\ ret = <<>>
    /\ tr = NewTranslator(EmptyDict, EmptyDict, "Normal")
    /\ open = <<>>
    /\ nev = 0
    /\ hist = <<>>
    /\ tb = TableInput

ParseBorder ==
    /\ ret = <<>>
    /\ ret' = <<parse_border_value(arg)>>
    /\ UNCHANGED <<tr, open, nev, hist, arg, tb>>

NextBorder == ParseBorder

SpecBorder == InitBorder /\ [][NextBorder]_vars

(***************************************************************************)
(* SpecCellBorder: set_cell_borders, as handle_table reaches it through    *)
(* add_styles_to_table_cell, on one border declaration of a cell: every    *)
(* property of BorderProps with every value of up to MaxBorderTokens       *)
(* tokens.  The value of a color property is a color.  Neither caller has  *)
(* a handler, so an error raised here leaves the entry point.              *)
(***************************************************************************)
BorderProps ==
    {<<"border">>, <<"border", "width">>, <<"border", "top">>,
     <<"border", "left", "width">>, <<"border", "collapse">>,
     <<"border", "style">>, <<"border", "color">>,
     <<"border", "top", "style">>, <<"border", "left", "color">>}

\* the declarations of the model
BorderDeclarations ==
    {a \in [prop : BorderProps, value : SeqsUpTo(BorderTokens, MaxBorderTokens)] :
        a.prop[Len(a.prop)] = "color" =>
            (Len(a.value) = 1 /\ Lower(a.value[1]) \in DOMAIN BorderColors)}

InitCellBorder ==
    /\ arg \in BorderDeclarations
    /\ ret = <<>>
    /\ tr = NewTranslator(EmptyDict, EmptyDict, "Normal")
    /\ open = <<>>
    /\ nev = 0
    /\ hist = <<>>
    /\ tb = TableInput

SetCellBorders ==
    /\ ret = <<>>
    /\ ret' = <<set_cell_borders(arg.prop, arg.value)>>
    /\ UNCHANGED <<tr, open, nev, hist, arg, tb>>

NextCellBorder == SetCellBorders

SpecCellBorder == InitCellBorder /\ [][NextCellBorder]_vars

(***************************************************************************)
(* SpecRun: one call of an entry point on a configured translator, with    *)
(* every markup of up to MaxTables tables, valid and invalid arguments.    *)
(***************************************************************************)
\* the places a table element can lie at
Places ==
    {InBody, InHead} \cup {InCell(i, c) : i \in 1 .. MaxTables, c \in 1 .. MaxNestCells}

\* the markups: a table lies in the head, in the body or in a cell of an
\* earlier table
RunMarkups ==
    UNION {{[n |-> n, loc |-> loc, deco |-> NoDeco] :
              loc \in {l \in [1 .. n -> Places] : \A j \in 1 .. n : l[j].table < j}} :
           n \in 0 .. MaxTables}

\* the option names of DEFAULT_OPTIONS
Flags == DOMAIN DEFAULT_OPTIONS

\* the translators: the constructor, then the settings the caller assigns
RunTranslators ==
    LET plain == HtmlToDocx(EmptyDict, EmptyDict, "Normal") IN
    {plain}
    \cup {[plain EXCEPT !.options[f] = FALSE] : f \in Flags}
    \cup {[plain EXCEPT !.table_style = ts] : ts \in {"TableGrid", "Bogus"}}
    \cup {[HtmlToDocx(ParaStyleMap, "p" :> "Heading 2", "Heading 1")
             EXCEPT !.table_row_selectors = <<"table > tr">>]}

\* the first arguments: a str, and a value that is not a str
RunHtmlTypes == {"str", "bytes"}

\* the second arguments: documents, a cell, and a value that is neither
RunTargets ==
    {NewDocument,
     [NewDocument EXCEPT !.paragraphs = <<NewParagraph("Heading 1")>>],
     NewCell,
     [kind |-> "str", paragraphs |-> <<>>, tables |-> <<>>]}

InitRun ==
    /\ tr \in RunTranslators
    /\ \E m \in RunMarkups, ty \in RunHtmlTypes, d \in RunTargets :
          arg = [html |-> [type |-> ty, markup |-> m, frag |-> TopFrag],
                 document |-> d]
    /\ ret = <<>>
    /\ open = <<>>
    /\ nev = 0
    /\ hist = <<>>
    /\ tb = TableInput

\* the outcome of a call: the translator before it, the exception, the target
Outcome(method, r) ==
    <<[method |-> method, before |-> tr, raised |-> r.raised,
       document |-> r.document]>>

AddHtmlToDocument ==
    /\ ret = <<>>
    /\ LET r == add_html_to_document(tr, arg.html, arg.document) IN
          /\ tr' = r.self
          /\ ret' = Outcome("add_html_to_document", r)
    /\ UNCHANGED <<open, nev, hist, arg, tb>>

AddHtmlToCell ==
    /\ ret = <<>>
    /\ LET r == add_html_to_cell(tr, arg.html, arg.document) IN
          /\ tr' = r.self
          /\ ret' = Outcome("add_html_to_cell", r)
    /\ UNCHANGED <<open, nev, hist, arg, tb>>

NextRun == AddHtmlToDocument \/ AddHtmlToCell

SpecRun == InitRun /\ [][NextRun]_vars

(***************************************************************************)
(* SpecFeed: one run of add_html_to_document followed event by event: the  *)
(* state after run_process has built the table list, then one step per     *)
(* callback of HTMLParser.feed on the top-level translator.  The markups   *)
(* are those of SpecRun with text and elements in the head, in the cells   *)
(* and around the tables of the body.                                      *)
(***************************************************************************)
\* <div class="x"> ... <p>T</p></div> around the tables of the body
DivPre == <<StartEvent("div", Attr("class", <<"x">>))>>
DivPost == <<StartEvent("p", EmptyDict), TextEvent("T"), EndEvent("p"), EndEvent("div")>>
\* <span style="font-weight: bold !important"> ... T</span> around them
SpanPre == <<StartEvent("span", FontWeight(<<"bold", "!important">>))>>
SpanPost == <<TextEvent("T"), EndEvent("span")>>

\* <tag>T</tag>
Element(tag) == <<StartEvent(tag, EmptyDict), TextEvent("T"), EndEvent(tag)>>
\* <p id="name">T</p>
Anchored(name) == <<StartEvent("p", Attr("id", name)), TextEvent("T"), EndEvent("p")>>

FeedDecos ==
    {[head |-> Element("p"), pre |-> Anchored("top"), post |-> Anchored("end"),
      cell |-> Anchored("cell")],
     [head |-> <<>>, pre |-> DivPre, post |-> DivPost, cell |-> Element("div")],
     [head |-> <<>>, pre |-> SpanPre, post |-> SpanPost, cell |-> Element("span")],
     [head |-> <<>>, pre |-> SpanPre, post |-> SpanPost, cell |-> Element("code")]}

FeedMarkups == {[m EXCEPT !.deco = d] : m \in RunMarkups, d \in FeedDecos}

\* the events the run feeds
FeedEvents == events_of(arg.markup, arg.frag)

InitFeed ==
    /\ \E m \in FeedMarkups : arg = [type |-> "str", markup |-> m, frag |-> TopFrag]
    /\ tr = run_setup(NewTranslator(BlockStyleMap, EmptyDict, "Normal"), arg)
    /\ open = <<>>
    /\ nev = 0
    /\ hist = <<>>
    /\ ret = <<>>
    /\ tb = TableInput

\* the next callback is due: feed has events left and no callback has raised
FeedDue(ev) ==
    /\ nev < Len(FeedEvents)
    /\ tr.error = NoError
    /\ FeedEvents[nev + 1].ev = ev

FeedNextStart == FeedDue("start") /\ StartTag(FeedEvents[nev + 1])

FeedNextEnd == FeedDue("end") /\ EndTag

FeedNextData == FeedDue("data") /\ Data(FeedEvents[nev + 1].tag)

NextFeed == FeedNextStart \/ FeedNextEnd \/ FeedNextData

SpecFeed == InitFeed /\ [][NextFeed]_vars

(***************************************************************************)
(* SpecInline: parse_inline_styles on every declaration block of up to two *)
(* properties whose values have up to MaxStyleTokens tokens.  The block is *)
(* empty for a style string that is empty or has no declaration.           *)
(***************************************************************************)
InlineProps == {"font-weight", "color"}

InlineTokens == {"bold", "x", "!important", "!IMPORTANT", "red!important", "!importantly"}

InitInline ==
    /\ arg \in Dicts(InlineProps, SeqsUpTo(InlineTokens, MaxStyleTokens))
    /\ ret = <<>>
    /\ tr = NewTranslator(EmptyDict, EmptyDict, "Normal")
    /\ open = <<>>
    /\ nev = 0
    /\ hist = <<>>
    /\ tb = TableInput

ParseInlineStyles ==
    /\ ret = <<>>
    /\ ret' = <<parse_inline_styles(arg)>>
    /\ UNCHANGED <<tr, open, nev, hist, arg, tb>>

NextInline == ParseInlineStyles

SpecInline == InitInline /\ [][NextInline]_vars

(***************************************************************************)
(* SpecNest: ignore_nested_tables on the find_all list of every fragment   *)
(* of every markup of SpecRun.                                             *)
(***************************************************************************)
InitNest ==
    /\ \E m \in RunMarkups :
          \E frag \in {TopFrag} \cup {CellFrag(i, c) : i \in 1 .. m.n,
                                                      c \in 1 .. MaxNestCells} :
              arg = [markup |-> m, frag |-> frag]
    /\ ret = <<>>
    /\ tr = NewTranslator(EmptyDict, EmptyDict, "Normal")
    /\ open = <<>>
    /\ nev = 0
    /\ hist = <<>>
    /\ tb = TableInput

IgnoreNestedTables ==
    /\ ret = <<>>
    /\ ret' = <<ignore_nested_tables(arg.markup, find_all(arg.markup, arg.frag))>>
    /\ UNCHANGED <<tr, open, nev, hist, arg, tb>>

NextNest == IgnoreNestedTables

SpecNest == InitNest /\ [][NextNest]_vars

(***************************************************************************)
(* SpecReuse: two calls of add_html_to_document on one translator, each on *)
(* a new document.  The first markup may end inside an open element or an  *)
(* open skip region (fix_html off feeds the markup as written).            *)
(***************************************************************************)
\* one table in the body, or none, with the events around it
ReuseMarkup(n, pre, post) ==
    [n |-> n, loc |-> [i \in 1 .. n |-> InBody],
     deco |-> [head |-> <<>>, pre |-> pre, post |-> post, cell |-> <<TextEvent("T")>>]]

ListElement ==
    <<StartEvent("ol", EmptyDict), StartEvent("li", EmptyDict), TextEvent("T"),
      EndEvent("li"), EndEvent("ol")>>

ReuseFirst ==
    {ReuseMarkup(n, pre, post) :
        n \in 0 .. 1,
        pre \in {<<>>, DivPre},
        post \in {<<>>, <<TextEvent("T")>>, <<StartEvent("p", EmptyDict), TextEvent("T")>>,
                  <<StartEvent("head", EmptyDict), TextEvent("T")>>,
                  SubSeq(ListElement, 1, 3)}}

ReuseSecond ==
    {ReuseMarkup(n, pre, post) :
        n \in 0 .. 1,
        pre \in {<<>>, <<TextEvent("T")>>, <<StartEvent("br", EmptyDict)>>},
        post \in {<<>>, Element("p"), Element("p") \o <<StartEvent("br", EmptyDict)>>,
                  ListElement}}

ReuseTranslators ==
    {HtmlToDocx(EmptyDict, EmptyDict, "Normal"),
     HtmlToDocx(BlockStyleMap, "p" :> "Heading 2", "Heading 1"),
     [HtmlToDocx(EmptyDict, EmptyDict, "Normal") EXCEPT !.table_style = "TableGrid"]}

InitReuse ==
    /\ tr \in ReuseTranslators
    /\ \E m1 \in ReuseFirst, m2 \in ReuseSecond :
          arg = <<[type |-> "str", markup |-> m1, frag |-> TopFrag],
                  [type |-> "str", markup |-> m2, frag |-> TopFrag]>>
    /\ ret = <<>>
    /\ open = <<>>
    /\ nev = 0
    /\ hist = <<>>
    /\ tb = TableInput

\* the k-th call: add_html_to_document(arg[k], Document())
ReuseCall(k) ==
    /\ Len(ret) = k - 1
    /\ LET r == add_html_to_document(tr, arg[k], NewDocument) IN
          /\ tr' = r.self
          /\ ret' = ret \o Outcome("add_html_to_document", r)
    /\ UNCHANGED <<open, nev, hist, arg, tb>>

FirstCall == ReuseCall(1)

SecondCall == ReuseCall(2)

NextReuse == FirstCall \/ SecondCall

SpecReuse == InitReuse /\ [][NextReuse]_vars

(***************************************************************************)
(* Properties of the style cascade resolver (SpecStyle).                   *)
(***************************************************************************)
\* the tokens of the class attribute of the call
CallClasses ==
    IF "class" \in DOMAIN arg.attrs THEN arg.attrs["class"] ELSE <<>>

\* the positions of the class tokens that are keys of the class -> style map
KeyPositions == {i \in DOMAIN CallClasses : CallClasses[i] \in DOMAIN tr.style_map}

\* the position of the first such token, 0 if there is none
FirstKeyPosition ==
    IF KeyPositions = {} THEN 0
    ELSE CHOOSE i \in KeyPositions : \A j \in KeyPositions : i <= j

\* C1: if at least one token of the class attribute is a key of the class -> style
\* map, the result is the style mapped to one of those tokens, and it is not the
\* tag's override (whenever the override differs from those styles), whatever the
\* tag -> style map holds.
C1_ClassBeatsTagOverride ==
    (ret # NotRun /\ KeyPositions # {}) =>
        LET mapped == {tr.style_map[CallClasses[i]] : i \in KeyPositions} IN
        /\ ret \in mapped
        /\ (arg.tag \in DOMAIN tr.tag_style_overrides
            /\ tr.tag_style_overrides[arg.tag] \notin mapped)
           => ret # tr.tag_style_overrides[arg.tag]

\* a call on a tag with an override and a class attribute with a mapped token,
\* answered with a style other than the override
C1_Witness ==
    /\ ret # NotRun
    /\ KeyPositions # {}
    /\ arg.tag \in DOMAIN tr.tag_style_overrides
    /\ ret # tr.tag_style_overrides[arg.tag]

\* C2: the result is the style of the first class token, in attribute order, that
\* is a key of the class -> style map; tokens that are not keys are skipped; with
\* no such token the result is the tag's override if it has one, else None.
C2_FirstClassTokenWins ==
    ret # NotRun =>
        IF FirstKeyPosition # 0
        THEN ret = tr.style_map[CallClasses[FirstKeyPosition]]
        ELSE IF arg.tag \in DOMAIN tr.tag_style_overrides
             THEN ret = tr.tag_style_overrides[arg.tag]
             ELSE ret = NoStyle

\* a call whose first token is no key, whose second is, and which has a later
\* key token mapped to another style
C2_Witness ==
    /\ ret # NotRun
    /\ FirstKeyPosition = 2
    /\ \E j \in KeyPositions :
          j > 2 /\ tr.style_map[CallClasses[j]] # tr.style_map[CallClasses[2]]
    /\ ret = tr.style_map[CallClasses[2]]

(***************************************************************************)
(* Properties of the paragraph style cascade and of !important (Spec).     *)
(***************************************************************************)
\* the <p> open events seen outside a skip region and outside list items
IsParagraphOpen(h) ==
    h.ev = "start" /\ h.tag = "p" /\ ~h.skipping /\ ~h.in_item

\* C3: a <div> whose class maps to a valid style S creates no paragraph; every
\* <p> opened between that <div> and its </div> creates one paragraph carrying
\* S; after the </div> a plain <p> gets the default paragraph style.
C3_DivStyleReachesEveryParagraph ==
    \A i \in DOMAIN hist :
        LET h == hist[i] IN
        /\ (h.ev = "start" /\ h.tag = "div" /\ ~h.skipping /\ ~h.in_item
            /\ h.own # NoStyle) => h.para = 0
        /\ (IsParagraphOpen(h) /\ h.encl # NoStyle) =>
              (h.para # 0 /\ tr.doc[h.para].style = h.encl)
        /\ (IsParagraphOpen(h) /\ h.encl = NoStyle /\ h.own = NoStyle) =>
              (h.para # 0 /\ tr.doc[h.para].style = tr.default_paragraph_style)

\* C4: a <p> that resolves to a valid style through its own class or its tag
\* override receives that style, also inside a <div> that set an inherited style.
C4_OwnStyleBeatsInherited ==
    \A i \in DOMAIN hist :
        LET h == hist[i] IN
        (IsParagraphOpen(h) /\ h.own # NoStyle) =>
            (h.para # 0 /\ tr.doc[h.para].style = h.own)

\* C5: a run emitted while an element that declared font-weight with !important
\* is open has the font weight of such a declaration.
C5_ImportantAlwaysWins ==
    \A i \in DOMAIN hist :
        LET h == hist[i] IN
        (h.ev = "data" /\ h.run # <<>> /\ h.important # {}) =>
            tr.doc[h.run[1]].runs[h.run[2]].bold \in h.important

\* the event a step feeds: the last observation of the history after the step
FedEvent == hist'[Len(hist')]

\* the open events of the elements that are open now
OpenIds == {open[j].eid : j \in DOMAIN open}

\* the open events that set the pending div style, to the style h.own
SetsDivStyle(h) ==
    h.ev = "start" /\ h.tag = "div" /\ ~h.skipping /\ ~h.in_item /\ h.own # NoStyle

\* the inline declarations an open event stores in the pending slots
DeclaredStyles(h) ==
    IF h.ev = "start" /\ ~h.skipping /\ h.tag \in {"span", "p", "pre", "code"}
       /\ "style" \in DOMAIN h.attrs
    THEN parse_inline_styles(h.attrs["style"])
    ELSE [normal |-> EmptyDict, important |-> EmptyDict]

DivSetters == {k \in DOMAIN hist : SetsDivStyle(hist[k])}
NormalSetters == {k \in DOMAIN hist : DOMAIN DeclaredStyles(hist[k]).normal # {}}
ImportantSetters == {k \in DOMAIN hist : DOMAIN DeclaredStyles(hist[k]).important # {}}

\* a slot holds the value of the element that set it last while that element
\* is open, and holds nothing when no element that set it is open
PendingDivOwned ==
    /\ InnermostOf(DivSetters) \in OpenIds =>
          tr.pending_div_style = hist[InnermostOf(DivSetters)].own
    /\ DivSetters \cap OpenIds = {} => tr.pending_div_style = NoStyle

PendingNormalOwned ==
    /\ InnermostOf(NormalSetters) \in OpenIds =>
          tr.pending_inline_styles =
              DeclaredStyles(hist[InnermostOf(NormalSetters)]).normal
    /\ NormalSetters \cap OpenIds = {} => tr.pending_inline_styles = EmptyDict

PendingImportantOwned ==
    /\ InnermostOf(ImportantSetters) \in OpenIds =>
          tr.pending_important_styles =
              DeclaredStyles(hist[InnermostOf(ImportantSetters)]).important
    /\ ImportantSetters \cap OpenIds = {} => tr.pending_important_styles = EmptyDict

\* C24: at every text event each pending style slot holds the value of the
\* element that set it while that element is still open (whatever nested
\* elements were closed in between), and holds nothing once no element that
\* set it is open.
C24_PendingSlotsFollowTheirElement ==
    [][FedEvent.ev = "data" =>
          PendingDivOwned /\ PendingNormalOwned /\ PendingImportantOwned]_vars

(***************************************************************************)
(* Properties of the list numbering allocator (SpecList).                  *)
(***************************************************************************)
\* the <li> open events that are items of an ordered list
IsOrderedItem(h) == h.ev = "start" /\ h.tag = "li" /\ h.owner # 0 /\ h.para # 0

\* the numbering id written on the item's paragraph
ItemNumId(h) == tr.doc[h.para].numId

\* C6: the first <li> of each <ol> gets a numbering id newly requested from the
\* numbering store with start override 1, different from the numbering id of
\* every earlier list item.
C6_FirstItemGetsFreshNumId ==
    \A i \in DOMAIN hist :
        LET h == hist[i] IN
        (IsOrderedItem(h)
         /\ \A j \in 1 .. i - 1 :
               ~(IsOrderedItem(hist[j]) /\ hist[j].owner = h.owner)) =>
            /\ h.requested # 0
            /\ h.requested = ItemNumId(h)
            /\ \A k \in DOMAIN tr.numbering :
                  tr.numbering[k].numId = h.requested => tr.numbering[k].start = 1
            /\ \A j \in 1 .. i - 1 :
                  IsOrderedItem(hist[j]) => ItemNumId(hist[j]) # ItemNumId(h)

\* C7: the <li> items of one <ol> all carry the same numbering id.
C7_ItemsOfOneListShareNumId ==
    \A i, j \in DOMAIN hist :
        (IsOrderedItem(hist[i]) /\ IsOrderedItem(hist[j])
         /\ hist[i].owner = hist[j].owner) =>
            ItemNumId(hist[i]) = ItemNumId(hist[j])

\* C8: the <li> items of two different <ol> elements never carry the same
\* numbering id.
C8_ListsHaveDisjointNumIds ==
    \A i, j \in DOMAIN hist :
        (IsOrderedItem(hist[i]) /\ IsOrderedItem(hist[j])
         /\ hist[i].owner # hist[j].owner) =>
            ItemNumId(hist[i]) # ItemNumId(hist[j])

\* C27: after the </ol> of an ordered list the numbering cache holds no entry
\* created by that list: the numbering id an item of a closed list requested
\* is not a value of the cache (so the cache is empty once every list is
\* closed).
C27_ClosedListLeavesNoCacheEntry ==
    \A i \in DOMAIN hist :
        (/\ IsOrderedItem(hist[i])
         /\ hist[i].requested # 0
         /\ \A j \in DOMAIN open : open[j].eid # hist[i].owner) =>
            \A k \in DOMAIN tr.list_num_ids :
                tr.list_num_ids[k] # hist[i].requested

\* the list elements that are open, outermost first
OpenLists == SelectSeq(open, LAMBDA e : e.tag \in {"ol", "ul"})

\* the visual level of an <li> opened now
ItemLevel == Min(IF OpenLists = <<>> THEN 1 ELSE Len(OpenLists), 3)

\* the type of the innermost open list, "ul" outside any list
ItemListType ==
    IF OpenLists = <<>> THEN "ul" ELSE OpenLists[Len(OpenLists)].tag

\* C29: every <li> gets a paragraph whose list style is the variant for the
\* innermost open list's type ("ul" outside any list) and the level
\* min(number of open lists, 3), at least 1; an ordered item carries the
\* numbering level level - 1, which lies in 0..2.
C29_ItemLevelAndStyle ==
    [][(/\ Len(hist') > Len(hist)
        /\ hist'[Len(hist')].ev = "start" /\ hist'[Len(hist')].tag = "li") =>
          LET p == tr'.doc[Len(tr'.doc)] IN
          /\ Len(tr'.doc) = Len(tr.doc) + 1
          /\ tr'.paragraph = Len(tr'.doc)
          /\ p.style = ListStyle(ItemListType, ItemLevel)
          /\ p.style \in (IF ItemListType = "ol"
                          THEN {"List Number", "List Number 2", "List Number 3"}
                          ELSE {"List Bullet", "List Bullet 2", "List Bullet 3"})
          /\ ItemListType = "ol" =>
                /\ p.ilvl = ItemLevel - 1
                /\ p.ilvl \in 0 .. 2]_vars

\* an item of a list nested four deep was given the level-3 style and the
\* numbering level 2, and an item outside any list the base bullet style
C29_Witness ==
    /\ Len(OpenLists) = 4
    /\ open[Len(open)].tag = "li"
    /\ tr.doc[Len(tr.doc)].style = "List Number 3"
    /\ tr.doc[Len(tr.doc)].ilvl = 2
    /\ tr.doc[1].style = "List Bullet"

\* C28: ordered-list keys are strictly increasing: an <ol> open event sets the
\* current key to a value greater than the counter and every key in use before
\* it, a <ul> open event allocates no key and leaves the counter unchanged.
C28_OlKeysStrictlyIncrease ==
    [][Len(hist') > Len(hist) =>
          /\ tr.current_ol_num_id <= tr.list_restart_counter
          /\ \A k \in DOMAIN tr.list_num_ids : k <= tr.list_restart_counter
          /\ (FedEvent.ev = "start" /\ FedEvent.tag = "ol") =>
                /\ tr'.current_ol_num_id > tr.list_restart_counter
                /\ tr'.current_ol_num_id > tr.current_ol_num_id
                /\ \A k \in DOMAIN tr.list_num_ids : tr'.current_ol_num_id > k
                /\ tr'.list_restart_counter = tr'.current_ol_num_id
          /\ (FedEvent.ev = "start" /\ FedEvent.tag = "ul") =>
                /\ tr'.list_restart_counter = tr.list_restart_counter
                /\ tr'.current_ol_num_id = NoneId
          /\ tr'.list_restart_counter >= tr.list_restart_counter]_vars

\* two <ol> elements were opened, the second inside an item of the first, then
\* a <ul>: the counter stands at 2 and no key is current
C28_Witness ==
    /\ \E i, j, k \in DOMAIN hist :
          /\ i < j /\ j < k
          /\ hist[i].ev = "start" /\ hist[i].tag = "ol"
          /\ hist[j].ev = "start" /\ hist[j].tag = "ol"
          /\ hist[k].ev = "start" /\ hist[k].tag = "ul"
          /\ k = Len(hist)
    /\ tr.list_restart_counter = 2
    /\ tr.current_ol_num_id = NoneId
    /\ DOMAIN tr.list_num_ids # {}

(***************************************************************************)
(* Properties of the table geometry builder (SpecTable).                   *)
(***************************************************************************)
\* the grid region written by the k-th cell placed
CellRegion(k) ==
    Region(tb.cells[k].row, tb.cells[k].col, tb.cells[k].rowspan, tb.cells[k].colspan)

\* C9: the grid regions written by distinct cells are pairwise disjoint; a
\* colspan=2 rowspan=2 cell at (0,0) covers exactly (0,0),(0,1),(1,0),(1,1).
C9_CellRegionsDisjoint ==
    tb.pc # "markup" =>
        /\ \A i, j \in DOMAIN tb.cells :
              i # j => CellRegion(i) \cap CellRegion(j) = {}
        /\ \A k \in DOMAIN tb.cells :
              (tb.cells[k].row = 0 /\ tb.cells[k].col = 0
               /\ tb.cells[k].rowspan = 2 /\ tb.cells[k].colspan = 2) =>
                 CellRegion(k) = {<<0, 0>>, <<0, 1>>, <<1, 0>>, <<1, 1>>}

\* the largest number of a non-empty set of numbers
SetMax(S) == CHOOSE x \in S : \A y \in S : y <= x

\* the sum of the colspans of the cells of the i-th row
RowWidth(i) ==
    LET row == tb.table[i]
        partial[k \in 0 .. Len(row)] ==
            IF k = 0 THEN 0 ELSE partial[k - 1] + row[k].colspan
    IN  partial[Len(row)]

\* the positions <<row, cell>>, from 1, of the cells with rowspan > 1
SpanningCells ==
    {ik \in UNION {{<<i, k>> : k \in DOMAIN tb.table[i]} : i \in DOMAIN tb.table} :
        tb.table[ik[1]][ik[2]].rowspan > 1}

\* C10: cols is the largest sum of colspans of a row; rows is the largest of the
\* number of rows and, over the cells with rowspan > 1, row index + rowspan; a
\* table without rows has dimensions (0, 0).
C10_TableDimensions ==
    tb.pc # "markup" =>
        IF tb.table = <<>> THEN tb.rows = 0 /\ tb.cols = 0
        ELSE /\ tb.cols = SetMax({RowWidth(i) : i \in DOMAIN tb.table})
             /\ tb.rows =
                  SetMax({Len(tb.table)} \cup
                         {(ik[1] - 1) + tb.table[ik[1]][ik[2]].rowspan :
                             ik \in SpanningCells})

\* a table of rows of different widths whose last row has a cell with rowspan 2,
\* so that the grid has more rows than the markup
C10_Witness ==
    /\ tb.pc # "markup"
    /\ Len(tb.table) >= 2
    /\ RowWidth(1) # RowWidth(2)
    /\ tb.rows > Len(tb.table)

\* C11: cell placement stays inside the grid computed by get_table_dimensions:
\* the placement pass never runs off the grid (no index outside rows x cols is
\* used), and every anchor and merge corner of a placed cell is inside it.
C11_PlacementStaysInsideGrid ==
    tb.pc # "markup" =>
        /\ tb.pc # "raised"
        /\ \A k \in DOMAIN tb.cells :
              /\ tb.cells[k].row < tb.rows
              /\ tb.cells[k].col < tb.cols
              /\ tb.cells[k].row + tb.cells[k].rowspan - 1 < tb.rows
              /\ tb.cells[k].col + tb.cells[k].colspan - 1 < tb.cols

(***************************************************************************)
(* Properties of style fallback, default paragraph style and headings      *)
(* (SpecPara).                                                             *)
(***************************************************************************)
\* the start events handled outside a skip region
IsHandledStart(h) == h.ev = "start" /\ ~h.skipping

\* the style a paragraph ends up with when the configured default is applied
AppliedDefaultStyle ==
    IF tr.default_paragraph_style \in DocStyles THEN tr.default_paragraph_style
    ELSE BuiltinDefaultStyle

\* C15: an element whose class or tag override resolves to a style name the
\* document does not know never aborts the translation: no exception ends the
\* run, the name counts as no match, a <p> or heading is still emitted, and the
\* <p> carries a contextual default (the style inherited from an enclosing
\* styled div, or the default paragraph style), never the unknown name.
C15_UnknownStyleNeverAborts ==
    /\ tr.error = NoError
    /\ \A i \in DOMAIN hist :
          LET h == hist[i] IN
          (IsHandledStart(h) /\ h.resolved # NoStyle /\ h.resolved \notin DocStyles) =>
              /\ h.own = NoStyle
              /\ (h.tag \in DOMAIN h_size_of => h.added = 1)
              /\ (h.tag = "p" /\ ~h.in_item) =>
                    /\ h.added = 1
                    /\ tr.doc[h.para].style \in {AppliedDefaultStyle} \cup
                          (IF h.encl # NoStyle THEN {h.encl} ELSE {})

\* an unknown style was resolved for a <p>, and a later element was emitted too
C15_Witness ==
    \E i, j \in DOMAIN hist :
        /\ i < j
        /\ IsHandledStart(hist[i]) /\ hist[i].tag = "p" /\ ~hist[i].in_item
        /\ hist[i].resolved = "Bogus"
        /\ hist[i].added = 1
        /\ tr.default_paragraph_style = "Heading 1"
        /\ hist[j].added = 1

\* C16: a <p> or heading whose first matching class maps to a style the document
\* does not know, and whose tag has an override naming a style the document
\* knows, receives the tag-override style.
C16_FallsBackToTagOverride ==
    \A i \in DOMAIN hist :
        LET h == hist[i] IN
        (/\ IsHandledStart(h) /\ ~h.in_item /\ h.encl = NoStyle
         /\ h.tag \in {"p"} \cup DOMAIN h_size_of
         /\ h.resolved # NoStyle /\ h.resolved \notin DocStyles
         /\ h.tag \in DOMAIN tr.tag_style_overrides
         /\ tr.tag_style_overrides[h.tag] \in DocStyles) =>
            /\ h.para # 0
            /\ tr.doc[h.para].style = tr.tag_style_overrides[h.tag]

\* the <p> open events outside list items and styled divs with no class or tag
\* match
IsPlainParagraph(h) ==
    /\ IsHandledStart(h) /\ h.tag = "p" /\ ~h.in_item
    /\ h.encl = NoStyle /\ h.resolved = NoStyle

\* C17 as stated: such a <p> creates one paragraph carrying the configured
\* default paragraph style.
C17_PlainParagraphGetsConfiguredDefault ==
    \A i \in DOMAIN hist :
        IsPlainParagraph(hist[i]) =>
            /\ hist[i].added = 1
            /\ tr.doc[hist[i].para].style = tr.default_paragraph_style

\* C17, amended: such a <p> creates one paragraph; it carries the configured
\* default paragraph style when the document knows that style (the configured
\* style is "Normal" when the translator was constructed with None), and the
\* built-in default "Normal" when it does not.
C17_PlainParagraphGetsDefault ==
    \A i \in DOMAIN hist :
        IsPlainParagraph(hist[i]) =>
            /\ hist[i].added = 1
            /\ tr.doc[hist[i].para].style =
                  IF tr.default_paragraph_style \in DocStyles
                  THEN tr.default_paragraph_style
                  ELSE "Normal"

\* a plain <p> emitted under a configured default style other than "Normal"
C17_Witness ==
    \E i \in DOMAIN hist :
        /\ IsPlainParagraph(hist[i])
        /\ tr.default_paragraph_style = "Heading 1"
        /\ tr.doc[hist[i].para].style = "Heading 1"

\* C18: on a document sink a heading hN whose class or tag override resolves to
\* a style the document knows creates one paragraph of that style, any other
\* heading creates one built-in heading of level N; on every sink a heading open
\* event creates exactly one paragraph.
C18_HeadingStyle ==
    \A i \in DOMAIN hist :
        LET h == hist[i] IN
        (IsHandledStart(h) /\ h.tag \in DOMAIN h_size_of) =>
            /\ h.added = 1
            /\ tr.sink = "Document" =>
                  tr.doc[h.para].style =
                     IF h.own # NoStyle THEN h.own
                     ELSE HeadingStyle(h_size_of[h.tag])

\* a heading with a valid custom style and a heading without one, on a document
C18_Witness ==
    /\ tr.sink = "Document"
    /\ \E i, j \in DOMAIN hist :
          /\ IsHandledStart(hist[i]) /\ hist[i].tag = "h1"
          /\ hist[i].own = "Heading 3"
          /\ tr.doc[hist[i].para].style = "Heading 3"
          /\ IsHandledStart(hist[j]) /\ hist[j].tag = "h9"
          /\ tr.doc[hist[j].para].style = "Heading 9"

\* C30: a text event received while not skipping, outside <pre> and with no
\* current paragraph leaves the translator unchanged when the text is
\* whitespace only, and otherwise adds exactly one paragraph, which becomes
\* the current one and holds the one run or hyperlink emitted for the text.
C30_BlankTextDiscarded ==
    [][(/\ Len(hist') > Len(hist)
        /\ FedEvent.ev = "data"
        /\ ~tr.skip /\ "pre" \notin DOMAIN tr.tags
        /\ tr.paragraph = NoParagraph) =>
          IF FedEvent.tag = " "
          THEN tr' = tr
          ELSE /\ Len(tr'.doc) = Len(tr.doc) + 1
               /\ SubSeq(tr'.doc, 1, Len(tr.doc)) = tr.doc
               /\ tr'.paragraph = Len(tr'.doc)
               /\ Len(tr'.doc[tr'.paragraph].runs) = 1
               /\ tr'.doc[tr'.paragraph].runs[1].text = FedEvent.tag
               /\ tr'.doc[tr'.paragraph].runs[1].href # "" <=>
                     ("a" \in DOMAIN tr.tags /\ "href" \in DOMAIN tr.tags["a"])]_vars

\* inside a link and with no paragraph open, whitespace was discarded and the
\* text after it got a paragraph with one hyperlink
C30_Witness ==
    /\ Len(hist) = 3
    /\ hist[1].ev = "start" /\ hist[1].tag = "a"
    /\ hist[2].ev = "data" /\ hist[2].tag = " " /\ hist[2].added = 0
    /\ hist[3].ev = "data" /\ hist[3].tag = "T" /\ hist[3].added = 1
    /\ Len(tr.doc) = 1
    /\ Len(tr.doc[1].runs) = 1
    /\ tr.doc[1].runs[1].href = "#x"

(***************************************************************************)
(* Properties of the border shorthand parser (SpecBorder).                 *)
(***************************************************************************)
\* the classes a token falls in, after lower-casing
IsSizeToken(tok) ==
    Lower(tok) \in DOMAIN BorderWidths \/ Lower(tok) \in DOMAIN BORDER_KEYWORDS
IsStyleToken(tok) == ~IsSizeToken(tok) /\ Lower(tok) \in DOMAIN BORDER_STYLES
IsColorToken(tok) ==
    ~IsSizeToken(tok) /\ ~IsStyleToken(tok) /\ Lower(tok) \in DOMAIN BorderColors

\* the value is made of one size token, one style keyword and one color token
IsFullBorder(value) ==
    /\ Len(value) = 3
    /\ \E a, b, c \in 1 .. 3 :
          /\ {a, b, c} = 1 .. 3
          /\ IsSizeToken(value[a]) /\ IsStyleToken(value[b]) /\ IsColorToken(value[c])

\* the orderings of the tokens of value
Orderings(value) ==
    {[i \in DOMAIN value |-> value[f[i]]] :
        f \in {g \in [DOMAIN value -> DOMAIN value] :
                 \A i, j \in DOMAIN value : i # j => g[i] # g[j]}}

\* C19: for a value made of one size token, one border-style keyword and one
\* color token, every ordering of the tokens yields the same (size, style,
\* color); "1px solid #ff0000" yields 0.75pt, single, FF0000.
C19_BorderOrderIndependent ==
    (ret # <<>> /\ IsFullBorder(arg)) =>
        /\ \A q \in Orderings(arg) : parse_border_value(q) = ret[1]
        /\ arg = <<"1px", "solid", "#ff0000">> =>
              ret[1] = [size |-> 75, style |-> "single", color |-> "FF0000"]
        /\ \A i \in 1 .. 3 :
              /\ IsStyleToken(arg[i]) => ret[1].style = BORDER_STYLES[Lower(arg[i])]
              /\ IsColorToken(arg[i]) => ret[1].color = BorderColors[Lower(arg[i])]
              /\ IsSizeToken(arg[i]) =>
                    ret[1].size = IF border_unit_converter(Lower(arg[i])) # 0
                                  THEN border_unit_converter(Lower(arg[i]))
                                  ELSE DEFAULT_BORDER_SIZE

\* the color comes first and the size last, and all three differ from the
\* defaults
C19_Witness ==
    /\ ret # <<>>
    /\ arg = <<"#ff0000", "dashed", "1px">>
    /\ ret[1] = [size |-> 75, style |-> "dashed", color |-> "FF0000"]

(***************************************************************************)
(* Properties of the borders of a cell (SpecCellBorder).                   *)
(***************************************************************************)
\* C22: no border declaration of a cell's style aborts the translation: the
\* call raises nothing, and in a two-token `border` value a token that is
\* not a length leaves the default size on the sides it stands for.
C22_MalformedBorderNeverAborts ==
    ret # <<>> =>
        /\ ret[1].error = NoError
        /\ (arg.prop = <<"border">> /\ Len(arg.value) = 2) =>
              /\ ~IsSizeToken(arg.value[1])
                    => ret[1].borders["top"].size = DEFAULT_BORDER_SIZE
              /\ ~IsSizeToken(arg.value[2])
                    => ret[1].borders["left"].size = DEFAULT_BORDER_SIZE

\* the declarations on which the call does complete: a `border` value of one
\* or three tokens, and a side shorthand, never raise
C22_ShorthandCompletes ==
    (/\ ret # <<>>
     /\ \/ arg.prop = <<"border">> /\ Len(arg.value) \in {0, 1, 3}
        \/ arg.prop = <<"border", "top">>)
        => ret[1].error = NoError

(***************************************************************************)
(* Properties of the translation runs (SpecRun).                           *)
(***************************************************************************)
\* a call has returned or raised
Called(method) == ret # <<>> /\ ret[1].method = method

\* the arguments pass the validation of the entry point
ValidArguments ==
    IF ret[1].method = "add_html_to_document"
    THEN arg.html.type = "str" /\ arg.document.kind \in {"Document", "Cell"}
    ELSE arg.document.kind = "Cell"

\* C13: add_html_to_document raises ValueError when the markup is not a string
\* or the target is neither a document nor a cell, add_html_to_cell when the
\* target is not a cell; the translator is as it was before the call (no run
\* state was initialised) and the target is unchanged.
C13_InvalidArgumentsRejectedFirst ==
    (ret # <<>> /\ ~ValidArguments) =>
        /\ ret[1].raised = "ValueError"
        /\ tr = ret[1].before
        /\ ret[1].document = arg.document

\* a non-string markup is rejected on a document that already has a paragraph
C13_Witness ==
    /\ Called("add_html_to_document")
    /\ arg.html.type = "bytes"
    /\ arg.html.markup.n > 0
    /\ arg.document.kind = "Document" /\ arg.document.paragraphs # <<>>
    /\ ret[1].raised = "ValueError"
    /\ ret[1].document = arg.document

\* C14: when a run with valid arguments ends in the ValueError of a table
\* style that cannot be applied, the target has received no table and no
\* paragraph from the run.
C14_TableStyleErrorLeavesNoPartialDocument ==
    (ret # <<>> /\ ValidArguments /\ ret[1].raised = "ValueError") =>
        /\ Len(ret[1].document.tables) = Len(arg.document.tables)
        /\ Len(ret[1].document.paragraphs) <= Len(arg.document.paragraphs)

\* the add_table calls of a run: the table element each table was built from
\* and the sink it was added to, over a sink and the cells below it
RECURSIVE Emitted(_, _)
Emitted(tables, sink) ==
    LET RECURSIVE in_cells(_)
        in_cells(cells) ==
            IF cells = <<>> THEN <<>>
            ELSE Emitted(Head(cells).tables, Head(cells).frag) \o in_cells(Tail(cells))
    IN  IF tables = <<>> THEN <<>>
        ELSE <<[elem |-> Head(tables).elem, sink |-> sink]>>
             \o in_cells(Head(tables).cells)
             \o Emitted(Tail(tables), sink)

\* the table element lies in the head, or in a table that does
RECURSIVE IsInHead(_, _)
IsInHead(m, i) ==
    CASE m.loc[i].in = "head" -> TRUE
      [] m.loc[i].in = "body" -> FALSE
      [] OTHER -> IsInHead(m, m.loc[i].table)

\* the sink a table element belongs to: its innermost enclosing cell, or the
\* target of the run
SinkOfElement(m, i) ==
    IF m.loc[i].in = "cell" THEN CellFrag(m.loc[i].table, m.loc[i].cell) ELSE TopFrag

\* C12: with tables enabled, every table element outside the head causes
\* exactly one add_table, on the sink of its innermost enclosing cell or on
\* the target when no table encloses it.
C12_EachTableEmittedOnceInItsSink ==
    (/\ Called("add_html_to_document") /\ ValidArguments
     /\ ret[1].before.options.tables /\ ret[1].before.options.fix_html
     /\ ret[1].raised = NoError) =>
        LET m == arg.html.markup
            em == Emitted(ret[1].document.tables, TopFrag)
        IN  \A i \in 1 .. m.n :
               ~IsInHead(m, i) =>
                  /\ Cardinality({k \in DOMAIN em : em[k].elem = i}) = 1
                  /\ \A k \in DOMAIN em :
                        em[k].elem = i => em[k].sink = SinkOfElement(m, i)

\* the configurations of the child translators of the cells of the tables
RECURSIVE ChildConfigs(_)
ChildConfigs(tables) ==
    LET RECURSIVE in_cells(_)
        in_cells(cells) ==
            IF cells = <<>> THEN {}
            ELSE {Head(cells).parser} \cup ChildConfigs(Head(cells).tables)
                 \cup in_cells(Tail(cells))
    IN  IF tables = <<>> THEN {}
        ELSE in_cells(Head(tables).cells) \cup ChildConfigs(Tail(tables))

\* C20: the child translator of a table cell has the configuration of its
\* parent: style map, tag overrides, default paragraph style, table style,
\* row selectors and the six options.
C20_ChildHasParentConfiguration ==
    (ret # <<>> /\ ValidArguments /\ ret[1].raised = NoError) =>
        \A c \in ChildConfigs(ret[1].document.tables) : c = Config(tr)


\* C34: a run leaves the configuration of the translator (style maps,
\* default paragraph style, table style name, row selectors, feature flags)
\* as it was before the run.
C34_RunKeepsConfiguration ==
    ret # <<>> => Config(tr) = Config(ret[1].before)

(***************************************************************************)
(* Properties of skip regions (SpecFeed).                                  *)
(***************************************************************************)
\* the pending style slots of a translator
PendingSlots(s) ==
    <<s.pending_div_style, s.pending_character_style, s.pending_inline_styles,
      s.pending_important_styles>>

\* the open elements with a tag
OpenWith(tag) == {j \in DOMAIN open : open[j].tag = tag}

\* C25: while the translator is skipping, an open-tag event and a text event
\* leave the whole translator, its target included, as it was.
C25_SkippedEventsChangeNothing ==
    [][(tr.skip /\ FedEvent.ev \in {"start", "data"}) => tr' = tr]_vars

\* text inside a cell of a handled table and text inside the head have been
\* fed, after a table was added to the target
C25_Witness ==
    /\ \E i \in DOMAIN hist :
          /\ hist[i].ev = "data" /\ hist[i].skipping
          /\ \E j \in 1 .. i - 1 : hist[j].ev = "start" /\ hist[j].tag = "head"
    /\ hist # <<>> /\ hist[Len(hist)].ev = "data" /\ hist[Len(hist)].skipping
    /\ OpenWith("td") # {}
    /\ tr.doc_tables # <<>>
    /\ tr.skip /\ tr.skip_tag = "table"


\* the table element of the <table> event a step feeds: the events of the
\* tables come in the order of find_all
FedTable ==
    find_all(arg.markup, TopFrag)[
        Cardinality({i \in DOMAIN hist' : hist'[i].ev = "start" /\ hist'[i].tag = "table"})]

\* C23: the open event of a top-level table with N nested tables enters
\* Skipping with skip_tag = table and N remaining instances; a </table> of a
\* nested table is ignored and decrements the counter; the </table> of the
\* table that opened the region leaves Skipping, advances the table index by
\* one and clears the current paragraph.
C23_SkipRegionSpansItsTable ==
    [][/\ (FedEvent.ev = "start" /\ FedEvent.tag = "table" /\ ~tr.skip) =>
              /\ tr'.skip /\ tr'.skip_tag = "table"
              /\ tr'.instances_to_skip = Len(descendants(arg.markup, FedTable, 1))
       /\ (FedEvent.ev = "end" /\ FedEvent.tag = "table"
           /\ tr.skip /\ tr.skip_tag = "table") =>
              IF Cardinality(OpenWith("table")) > 1
              THEN /\ tr'.skip
                   /\ tr'.instances_to_skip = tr.instances_to_skip - 1
                   /\ tr'.table_no = tr.table_no
              ELSE /\ ~tr'.skip
                   /\ tr'.table_no = tr.table_no + 1
                   /\ tr'.paragraph = NoParagraph]_vars

\* C26: a closing tag inside a skip region that does not end the region
\* leaves the pending style slots of the translator as they were, and a <p>
\* that follows a table inside a styled <div> gets the style of the <div>.
C26_SkipRegionLeavesPendingStyles ==
    [][/\ (FedEvent.ev = "end" /\ tr.skip /\ tr'.skip) =>
              PendingSlots(tr') = PendingSlots(tr)
       /\ (IsParagraphOpen(FedEvent) /\ FedEvent.encl # NoStyle) =>
              /\ FedEvent.para # 0
              /\ tr'.doc[FedEvent.para].style = FedEvent.encl]_vars


(***************************************************************************)
(* Properties of a translator used twice (SpecReuse).                      *)
(***************************************************************************)
\* a newly constructed translator with the configuration of s
FreshLike(s) ==
    [HtmlToDocx(s.style_map, s.tag_style_overrides, s.default_paragraph_style)
        EXCEPT !.options = s.options,
               !.table_row_selectors = s.table_row_selectors,
               !.table_style = s.table_style]

\* what a new translator with the configuration the translator had before
\* its second call makes of the second markup
FreshOutcome == add_html_to_document(FreshLike(ret[2].before), arg[2], NewDocument)

\* C21: the second call on a translator leaves in its target what a newly
\* constructed translator with the same configuration leaves there, raises
\* what that one raises, and changes no target of an earlier call.
C21_SecondCallAsOnFreshTranslator ==
    Len(ret) = 2 =>
        /\ ret[2].document = FreshOutcome.document
        /\ ret[2].raised = FreshOutcome.raised
        /\ tr.stale = 0


(***************************************************************************)
(* Properties of the inline declaration parser (SpecInline).               *)
(***************************************************************************)
\* the token !important of a value: alone in any letter case, or written
\* against the value it follows
IsImportantToken(tok) == tok \in {"!important", "!IMPORTANT", "red!important"}

\* a value with its !important tokens taken out
WithoutImportantTokens(value) ==
    SelectSeq([i \in DOMAIN value |->
                  IF value[i] = "red!important" THEN "red" ELSE value[i]],
              LAMBDA tok : ~IsImportantToken(tok))

\* every property is in exactly one of the two maps
C32_Partition ==
    ret # <<>> =>
        /\ DOMAIN ret[1].normal \cup DOMAIN ret[1].important = DOMAIN arg
        /\ DOMAIN ret[1].normal \cap DOMAIN ret[1].important = {}
        /\ \A p \in DOMAIN ret[1].normal : ret[1].normal[p] = arg[p]
        /\ arg = EmptyDict => ret[1] = [normal |-> EmptyDict, important |-> EmptyDict]

\* C32: the two maps partition the properties; a property is in the
\* important map if and only if its value has the token !important in some
\* letter case, and then the stored value is the value without that token;
\* an empty block gives two empty maps.
C32_ImportantPartition ==
    ret # <<>> =>
        /\ C32_Partition
        /\ \A p \in DOMAIN arg :
              /\ p \in DOMAIN ret[1].important <=>
                    \E i \in DOMAIN arg[p] : IsImportantToken(arg[p][i])
              /\ p \in DOMAIN ret[1].important =>
                    ret[1].important[p] = WithoutImportantTokens(arg[p])


(***************************************************************************)
(* Properties of the table list (SpecNest).                                *)
(***************************************************************************)
\* the tables of the fragment that lie in no table of the fragment
HasNoTableAncestor(i) ==
    IF arg.frag = TopFrag THEN arg.markup.loc[i].in # "cell"
    ELSE arg.markup.loc[i] = InCell(arg.frag.table, arg.frag.cell)

\* C33: from the pre-order list of all the tables of a fragment,
\* ignore_nested_tables returns exactly the tables without a table ancestor,
\* in document order.
C33_OnlyTopLevelTables ==
    ret # <<>> =>
        ret[1] = SelectSeq(find_all(arg.markup, arg.frag), HasNoTableAncestor)

\* a table with a table in a cell, which has a table in a cell in turn, and
\* the outer one alone is returned
C33_Witness ==
    /\ ret = << <<1>> >>
    /\ arg.frag = TopFrag
    /\ arg.markup.n = 3
    /\ arg.markup.loc[2].table = 1
    /\ arg.markup.loc[3].table = 2

(***************************************************************************)
(* Properties of the tag context (Spec, SpecList).                         *)
(***************************************************************************)
\* the tags whose open elements handle_starttag records in self.tags
ContextTags == {"p", "div", "b"}

\* C38: the tag context holds a tag exactly when an element of that tag is
\* open, and a text run gets the bold of the tag b exactly when a <b> element
\* is open at the text event.
C38_FontStyleFollowsOpenElements ==
    /\ \A t \in ContextTags : (t \in DOMAIN tr.tags) <=> OpenWith(t) # {}
    /\ font_style_loop(tr, NewRun("T")).bold = "True" <=> OpenWith("b") # {}

\* C37: the inside-list-item flag is set exactly when an <li> element is open.
C37_InLiIffItemOpen ==
    tr.in_li <=> OpenWith("li") # {}

(***************************************************************************)
(* Properties of hyperlinks (SpecLink).                                    *)
(***************************************************************************)
\* an anchor is open when event i of the history is fed
AnchorOpenAt(i) ==
    Cardinality({k \in 1 .. i - 1 : hist[k].ev = "start" /\ hist[k].tag = "a"})
        > Cardinality({k \in 1 .. i - 1 : hist[k].ev = "end" /\ hist[k].tag = "a"})

\* event i of the history is a text event that added a hyperlink
AddedHyperlink(i) ==
    /\ hist[i].ev = "data" /\ hist[i].run # <<>>
    /\ tr.doc[hist[i].run[1]].runs[hist[i].run[2]].href # ""

\* the text of an open anchor is emitted as a hyperlink only
C31_AnchorTextIsHyperlink ==
    \A i \in DOMAIN hist :
        (hist[i].ev = "data" /\ hist[i].run # <<>>) =>
            (AddedHyperlink(i) <=> AnchorOpenAt(i))

\* C31: text inside an open anchor with an href is emitted as a hyperlink and
\* never as a plain run, and no anchor element gives more than one hyperlink:
\* between two hyperlinks of the document an anchor opened.
C31_OneHyperlinkPerAnchor ==
    /\ C31_AnchorTextIsHyperlink
    /\ \A i, j \in DOMAIN hist :
          (i < j /\ AddedHyperlink(i) /\ AddedHyperlink(j)) =>
              \E k \in i + 1 .. j - 1 : hist[k].ev = "start" /\ hist[k].tag = "a"

(***************************************************************************)
(* Properties of images (SpecImg).                                         *)
(***************************************************************************)
\* C36: with image support off an image suppresses itself only: after the
\* event of an image, in either of its two forms, the translator is not
\* skipping and no later event is fed to a skipping translator.
C36_ImageSkipsOnlyItself ==
    ~tr.options.images =>
        /\ ~tr.skip
        /\ \A i \in DOMAIN hist : ~hist[i].skipping

(***************************************************************************)
(* Properties of bookmarks (SpecFeed).                                     *)
(***************************************************************************)
\* the ids of the bookmarks of paragraphs and of the cells of tables, in
\* document order
RECURSIVE bookmark_ids(_, _)
RECURSIVE cell_bookmark_ids(_)
cell_bookmark_ids(cells) ==
    IF cells = <<>> THEN <<>>
    ELSE bookmark_ids(Head(cells).paragraphs, Head(cells).tables)
            \o cell_bookmark_ids(Tail(cells))

bookmark_ids(paragraphs, tables) ==
    IF paragraphs # <<>>
    THEN [i \in DOMAIN Head(paragraphs).bookmarks |-> Head(paragraphs).bookmarks[i].id]
            \o bookmark_ids(Tail(paragraphs), tables)
    ELSE IF tables # <<>>
    THEN cell_bookmark_ids(Head(tables).cells) \o bookmark_ids(<<>>, Tail(tables))
    ELSE <<>>

\* C39: the bookmarks written into the target of a run, those in the cells of
\* its tables included, have pairwise distinct ids.
C39_BookmarkIdsDistinct ==
    LET ids == bookmark_ids(tr.doc, tr.doc_tables) IN
    \A i, j \in DOMAIN ids : i # j => ids[i] # ids[j]

\* the bookmarks the top-level translator itself wrote have distinct ids
C39_OwnBookmarkIdsDistinct ==
    LET ids == bookmark_ids(tr.doc, <<>>) IN
    \A i, j \in DOMAIN ids : i # j => ids[i] # ids[j]

(***************************************************************************)
(* Properties of the skip fields (SpecFeed).                               *)
(***************************************************************************)
\* the skip fields are consistent: the counter is not negative, and a
\* translator that is not skipping has no skip tag and a counter of 0
SkipFieldsConsistent(s) ==
    /\ s.instances_to_skip >= 0
    /\ ~s.skip => (s.skip_tag = NoTag /\ s.instances_to_skip = 0)

\* C40: in every state the counter of remaining instances is >= 0, a
\* translator that is not skipping has no skip tag and a counter of 0, and
\* only a closing tag equal to the skip tag decreases the counter.
C40_SkipFields ==
    /\ []SkipFieldsConsistent(tr)
    /\ [][tr'.instances_to_skip < tr.instances_to_skip =>
            (tr.skip /\ FedEvent.ev = "end" /\ FedEvent.tag = tr.skip_tag)]_vars

\* the closing tag of a nested table has decreased the counter, and the
\* translator has left a skip region
C40_Witness ==
    /\ \E i \in DOMAIN hist : hist[i].ev = "end" /\ hist[i].tag = "table"
                               /\ hist[i].skipping
    /\ \E i \in DOMAIN hist : hist[i].skipping
    /\ ~tr.skip
    /\ tr.doc_tables # <<>>
    /\ \E i \in DOMAIN tr.doc_tables : \E c \in DOMAIN tr.doc_tables[i].cells :
          tr.doc_tables[i].cells[c].tables # <<>>

(***************************************************************************)
(* Properties of the default border size (SpecCellBorder).                 *)
(***************************************************************************)
\* the declaration is a shorthand parsed token by token: `border` with one or
\* three tokens, or `border-<side>`
IsShorthand(a) ==
    \/ a.prop = <<"border">> /\ Len(a.value) \in {1, 3}
    \/ Len(a.prop) = 2 /\ a.prop[2] \in {border_sides[i] : i \in 1 .. 4}

\* the sides the declaration is about
SidesOf(a) ==
    IF Len(a.prop) = 1 \/ a.prop[2] \in {"width", "style", "color"}
    THEN {border_sides[i] : i \in 1 .. 4}
    ELSE {a.prop[2]} \cap {border_sides[i] : i \in 1 .. 4}

\* the declaration gives a size: a width property, a `border` of two or four
\* widths, or a shorthand with a size token
GivesSize(a) ==
    \/ a.prop[Len(a.prop)] = "width"
    \/ a.prop = <<"border">> /\ Len(a.value) \in {2, 4}
    \/ IsShorthand(a) /\ \E i \in DOMAIN a.value : IsSizeToken(a.value[i])

\* the declaration gives a style or a color (`border-style: none` gives none)
GivesStyleOrColor(a) ==
    \/ /\ a.prop[Len(a.prop)] = "style"
       /\ Len(a.value) = 1 /\ IsStyleToken(a.value[1]) /\ Lower(a.value[1]) # "none"
    \/ a.prop[Len(a.prop)] = "color"
    \/ IsShorthand(a) /\ \E i \in DOMAIN a.value :
                            IsStyleToken(a.value[i]) \/ IsColorToken(a.value[i])

\* C35: a side given a style or a color and no size gets 1pt, in every form
\* of declaration, and a side no declaration is about keeps size 0.
C35_StyleOrColorDefaultsToOnePoint ==
    (ret # <<>> /\ ret[1].error = NoError) =>
        \A side \in DOMAIN ret[1].borders :
            /\ (side \in SidesOf(arg) /\ GivesStyleOrColor(arg) /\ ~GivesSize(arg))
                  => ret[1].borders[side].size = 100
            /\ side \notin SidesOf(arg) => ret[1].borders[side].size = 0

\* the same for the shorthand forms alone
C35_ShorthandDefaultsToOnePoint ==
    (ret # <<>> /\ ret[1].error = NoError) =>
        \A side \in DOMAIN ret[1].borders :
            /\ (/\ side \in SidesOf(arg) /\ IsShorthand(arg)
                /\ GivesStyleOrColor(arg) /\ ~GivesSize(arg))
                  => ret[1].borders[side].size = 100
            /\ side \notin SidesOf(arg) => ret[1].borders[side].size = 0

====
